---- MODULE Spec2Model ----
(***************************************************************************)
(* A model of the ArchiMate model server core: the taxonomy classifier,    *)
(* the relationship validity engine, the mutation operations on the        *)
(* in-memory Model, and the hierarchical (.archimate) and flat (Open       *)
(* Exchange) codecs.                                                       *)
(*                                                                         *)
(* Specifications:                                                         *)
(*   SpecValid  the validity engine applied to one (source, target, kind)  *)
(*              query drawn from the enumerations plus unknown kinds;      *)
(*   Spec       the mutation operations applied in any order to a Model;   *)
(*   SpecHier   writeModel followed by parseModelComplete on a Model;      *)
(*   SpecFlat   writeExchangeFormat followed by parseExchangeFormat.       *)
(***************************************************************************)
EXTENDS Integers, Sequences, FiniteSets, TLC

VARIABLES
    model,    \* Spec: the Model the mutation operations act on
    lastOp,   \* Spec: the last mutation operation and its arguments
    nops,     \* Spec: number of operations applied so far
    query,    \* SpecValid: [src, tgt, rel] handed to the validity engine
    answer,   \* SpecValid: what validateRelationship returned
    orig,     \* SpecHier/SpecFlat: the Model handed to the writer
    doc,      \* SpecHier/SpecFlat: the written document (XML object tree)
    parsed,   \* SpecHier/SpecFlat: the Model the reader returned
    phase     \* which step of the current specification has been taken

vars == <<model, lastOp, nops, query, answer, orig, doc, parsed, phase>>

(***************************************************************************)
(* Generic helpers on sequences.                                           *)
(***************************************************************************)
Range(s) == {s[i] : i \in 1..Len(s)}

Includes(s, x) == \E i \in 1..Len(s) : s[i] = x

RECURSIVE Flatten(_)
Flatten(ss) == IF ss = <<>> THEN <<>> ELSE Head(ss) \o Flatten(Tail(ss))

\* JavaScript `undefined` for an optional string field, and an absent XML
\* attribute or child: a string no vocabulary string equals.
Undefined == "<undefined>"

(***************************************************************************)
(* Taxonomy tables (types.ts).                                             *)
(***************************************************************************)
MotivationElementTypes ==
    <<"Stakeholder", "Driver", "Assessment", "Goal", "Outcome",
      "Principle", "Requirement", "Constraint", "Meaning", "Value">>

StrategyElementTypes ==
    <<"Resource", "Capability", "ValueStream", "CourseOfAction">>

BusinessElementTypes ==
    <<"BusinessActor", "BusinessRole", "BusinessCollaboration",
      "BusinessInterface", "BusinessProcess", "BusinessFunction",
      "BusinessInteraction", "BusinessEvent", "BusinessService",
      "BusinessObject", "Contract", "Representation", "Product">>

ApplicationElementTypes ==
    <<"ApplicationComponent", "ApplicationCollaboration",
      "ApplicationInterface", "ApplicationFunction",
      "ApplicationInteraction", "ApplicationProcess", "ApplicationEvent",
      "ApplicationService", "DataObject">>

TechnologyElementTypes ==
    <<"Node", "Device", "SystemSoftware", "TechnologyCollaboration",
      "TechnologyInterface", "Path", "CommunicationNetwork",
      "TechnologyFunction", "TechnologyProcess", "TechnologyInteraction",
      "TechnologyEvent", "TechnologyService", "Artifact", "Equipment",
      "Facility", "DistributionNetwork", "Material">>

ImplementationElementTypes ==
    <<"WorkPackage", "Deliverable", "ImplementationEvent", "Plateau", "Gap">>

CompositeElementTypes == <<"Grouping", "Location">>

AllElementTypes ==
    MotivationElementTypes \o StrategyElementTypes \o BusinessElementTypes
      \o ApplicationElementTypes \o TechnologyElementTypes
      \o ImplementationElementTypes \o CompositeElementTypes

RelationshipTypes ==
    <<"Composition", "Aggregation", "Assignment", "Realization",
      "Serving", "Access", "Influence", "Association",
      "Triggering", "Flow", "Specialization">>

Categories ==
    {"ActiveStructure", "Interface", "BehaviorInternal", "BehaviorExternal",
     "Event", "PassiveStructure", "Strategy", "Motivation",
     "ImplementationMigration", "Composite"}

Layers ==
    {"Motivation", "Strategy", "Business", "Application", "Technology",
     "Physical", "Implementation", "Composite"}

\* What getLayerForElementType yields for a kind in none of the lists: it
\* throws Error("Unknown element type").
LayerThrows == "<throws UnknownKind>"

\* Faulty variant: the lookup forgets the composite list, so Grouping and Location
\* are unknown kinds.
getLayerForElementType_NoComposite(elementType) ==
    IF Includes(MotivationElementTypes, elementType) THEN "Motivation"
    ELSE IF Includes(StrategyElementTypes, elementType) THEN "Strategy"
    ELSE IF Includes(BusinessElementTypes, elementType) THEN "Business"
    ELSE IF Includes(ApplicationElementTypes, elementType) THEN "Application"
    ELSE IF Includes(TechnologyElementTypes, elementType)
         THEN IF elementType \in {"Equipment", "Facility",
                                  "DistributionNetwork", "Material"}
              THEN "Physical"
              ELSE "Technology"
    ELSE IF Includes(ImplementationElementTypes, elementType)
         THEN "Implementation"
    ELSE LayerThrows

getLayerForElementType(elementType) ==
    IF Includes(MotivationElementTypes, elementType) THEN "Motivation"
    ELSE IF Includes(StrategyElementTypes, elementType) THEN "Strategy"
    ELSE IF Includes(BusinessElementTypes, elementType) THEN "Business"
    ELSE IF Includes(ApplicationElementTypes, elementType) THEN "Application"
    ELSE IF Includes(TechnologyElementTypes, elementType)
         THEN IF elementType \in {"Equipment", "Facility",
                                  "DistributionNetwork", "Material"}
              THEN "Physical"
              ELSE "Technology"
    ELSE IF Includes(ImplementationElementTypes, elementType)
         THEN "Implementation"
    ELSE IF Includes(CompositeElementTypes, elementType) THEN "Composite"
    ELSE LayerThrows

LayerFolderTypes(layer) ==
    CASE layer = "Motivation"     -> "motivation"
      [] layer = "Strategy"       -> "strategy"
      [] layer = "Business"       -> "business"
      [] layer = "Application"    -> "application"
      [] layer = "Technology"     -> "technology"
      [] layer = "Physical"       -> "technology"
      [] layer = "Implementation" -> "implementation_migration"
      [] layer = "Composite"      -> "other"

(***************************************************************************)
(* Taxonomy classifier and validity engine (relationships/validation).     *)
(***************************************************************************)
\* The kinds named in the ten lists of getElementCategory.
ListedKinds ==
    {"BusinessActor", "BusinessRole", "BusinessCollaboration",
     "ApplicationComponent", "ApplicationCollaboration",
     "Node", "Device", "SystemSoftware", "TechnologyCollaboration",
     "Equipment", "Facility",
     "BusinessInterface", "ApplicationInterface", "TechnologyInterface",
     "BusinessProcess", "BusinessFunction", "BusinessInteraction",
     "ApplicationFunction", "ApplicationInteraction", "ApplicationProcess",
     "TechnologyFunction", "TechnologyProcess", "TechnologyInteraction",
     "BusinessService", "ApplicationService", "TechnologyService",
     "BusinessEvent", "ApplicationEvent", "TechnologyEvent",
     "ImplementationEvent",
     "BusinessObject", "Contract", "Representation",
     "DataObject", "Artifact", "Material",
     "Resource", "Capability", "ValueStream", "CourseOfAction",
     "Stakeholder", "Driver", "Assessment", "Goal", "Outcome",
     "Principle", "Requirement", "Constraint", "Meaning", "Value",
     "WorkPackage", "Deliverable", "Plateau", "Gap",
     "Grouping", "Location", "Product"}

\* Faulty variant: a work package is an active structure.
getElementCategory_WorkPackageActive(elementType) ==
    IF elementType = "WorkPackage" THEN "ActiveStructure" ELSE "Composite"

getElementCategory(elementType) ==
    IF elementType \in
         {"BusinessActor", "BusinessRole", "BusinessCollaboration",
          "ApplicationComponent", "ApplicationCollaboration",
          "Node", "Device", "SystemSoftware", "TechnologyCollaboration",
          "Equipment", "Facility"}
         \cup {"BusinessInterface", "ApplicationInterface",
               "TechnologyInterface"}
    THEN "ActiveStructure"
    ELSE IF elementType \in
         {"BusinessProcess", "BusinessFunction", "BusinessInteraction",
          "ApplicationFunction", "ApplicationInteraction",
          "ApplicationProcess", "TechnologyFunction", "TechnologyProcess",
          "TechnologyInteraction"}
    THEN "BehaviorInternal"
    ELSE IF elementType \in
         {"BusinessService", "ApplicationService", "TechnologyService"}
    THEN "BehaviorExternal"
    ELSE IF elementType \in
         {"BusinessEvent", "ApplicationEvent", "TechnologyEvent",
          "ImplementationEvent"}
    THEN "Event"
    ELSE IF elementType \in
         {"BusinessObject", "Contract", "Representation", "DataObject",
          "Artifact", "Material"}
    THEN "PassiveStructure"
    ELSE IF elementType \in
         {"Resource", "Capability", "ValueStream", "CourseOfAction"}
    THEN "Strategy"
    ELSE IF elementType \in
         {"Stakeholder", "Driver", "Assessment", "Goal", "Outcome",
          "Principle", "Requirement", "Constraint", "Meaning", "Value"}
    THEN "Motivation"
    ELSE IF elementType \in {"WorkPackage", "Deliverable", "Plateau", "Gap"}
    THEN "ImplementationMigration"
    ELSE IF elementType \in {"Grouping", "Location", "Product"}
    THEN "Composite"
    ELSE "Composite"

isSameLayer(sourceType, targetType) ==
    getLayerForElementType(sourceType) = getLayerForElementType(targetType)

getLayerLevel(layer) ==
    CASE layer = "Motivation"     -> 0
      [] layer = "Strategy"       -> 1
      [] layer = "Business"       -> 2
      [] layer = "Application"    -> 3
      [] layer = "Technology"     -> 4
      [] layer = "Physical"       -> 4
      [] layer = "Implementation" -> 5
      [] layer = "Composite"      -> 6

\* Faulty variant: Realization also accepts a source on the same layer level.
RealizationCase_SameLevel(sourceType, targetType) ==
    LET sourceCategory == getElementCategory(sourceType)
        targetCategory == getElementCategory(targetType)
        sourceLayer    == getLayerForElementType(sourceType)
        targetLayer    == getLayerForElementType(targetType)
    IN  IF sourceCategory = "BehaviorInternal"
           /\ targetCategory = "BehaviorExternal" THEN TRUE
        ELSE IF getLayerLevel(sourceLayer) >= getLayerLevel(targetLayer)
             THEN TRUE
        ELSE IF targetCategory = "Strategy" THEN TRUE
        ELSE IF targetCategory = "Motivation" THEN TRUE
        ELSE IF sourceType = "Artifact" THEN TRUE
        ELSE FALSE

\* case 'Realization' of isValidRelationship
RealizationCase(sourceType, targetType) ==
    LET sourceCategory == getElementCategory(sourceType)
        targetCategory == getElementCategory(targetType)
        sourceLayer    == getLayerForElementType(sourceType)
        targetLayer    == getLayerForElementType(targetType)
    IN  IF sourceCategory = "BehaviorInternal"
           /\ targetCategory = "BehaviorExternal" THEN TRUE
        ELSE IF getLayerLevel(sourceLayer) > getLayerLevel(targetLayer)
             THEN TRUE
        ELSE IF targetCategory = "Strategy" THEN TRUE
        ELSE IF targetCategory = "Motivation" THEN TRUE
        ELSE IF sourceType = "Artifact" THEN TRUE
        ELSE FALSE

\* Faulty variant: Association is allowed only within one layer.
AssociationCase_SameLayerOnly(sourceType, targetType) ==
    isSameLayer(sourceType, targetType)

\* case 'Association' of isValidRelationship
AssociationCase(sourceType, targetType) == TRUE

\* isValidRelationship computes both layers before it looks at the
\* relationship kind, so an unknown element kind makes it throw.
isValidRelationshipThrows(sourceType, targetType) ==
    \/ getLayerForElementType(sourceType) = LayerThrows
    \/ getLayerForElementType(targetType) = LayerThrows

isValidRelationship(sourceType, targetType, relationshipType) ==
    LET sourceCategory == getElementCategory(sourceType)
        targetCategory == getElementCategory(targetType)
        sourceLayer    == getLayerForElementType(sourceType)
        targetLayer    == getLayerForElementType(targetType)
    IN  CASE relationshipType \in {"Composition", "Aggregation"} ->
               IF sourceType = targetType THEN TRUE
               ELSE IF sourceCategory = "Composite"
                       \/ targetCategory = "Composite" THEN TRUE
               ELSE IF isSameLayer(sourceType, targetType) THEN TRUE
               ELSE FALSE
          [] relationshipType = "Specialization" ->
               sourceType = targetType
          [] relationshipType = "Assignment" ->
               \/ /\ sourceCategory = "ActiveStructure"
                  /\ targetCategory \in {"BehaviorInternal", "BehaviorExternal"}
               \/ /\ sourceCategory = "BehaviorInternal"
                  /\ targetCategory = "PassiveStructure"
               \/ /\ sourceType = "WorkPackage"
                  /\ sourceCategory = "ActiveStructure"
          [] relationshipType = "Realization" ->
               RealizationCase(sourceType, targetType)
          [] relationshipType = "Serving" ->
               IF sourceCategory = "BehaviorExternal" THEN TRUE
               ELSE IF sourceCategory = "ActiveStructure"
                       /\ targetCategory = "ActiveStructure" THEN TRUE
               ELSE IF getLayerLevel(sourceLayer) > getLayerLevel(targetLayer)
                    THEN TRUE
               ELSE IF sourceType = "Capability" /\ targetType = "ValueStream"
                    THEN TRUE
               ELSE isSameLayer(sourceType, targetType)
          [] relationshipType = "Access" ->
               /\ sourceCategory \in
                    {"BehaviorInternal", "BehaviorExternal", "Event"}
               /\ targetCategory = "PassiveStructure"
          [] relationshipType = "Influence" ->
               targetCategory = "Motivation"
          [] relationshipType = "Triggering" ->
               \/ sourceCategory = "Event"
               \/ sourceCategory = "BehaviorInternal"
               \/ sourceCategory = "BehaviorExternal"
               \/ targetCategory = "Event"
               \/ targetCategory = "BehaviorInternal"
               \/ targetCategory = "BehaviorExternal"
               \/ sourceCategory = "ImplementationMigration"
               \/ targetCategory = "ImplementationMigration"
          [] relationshipType = "Flow" ->
               \/ sourceCategory = "BehaviorInternal"
               \/ sourceCategory = "BehaviorExternal"
               \/ sourceCategory = "Event"
               \/ targetCategory = "BehaviorInternal"
               \/ targetCategory = "BehaviorExternal"
               \/ targetCategory = "Event"
               \/ sourceCategory = "PassiveStructure"
               \/ targetCategory = "PassiveStructure"
          [] relationshipType = "Association" ->
               AssociationCase(sourceType, targetType)
          [] OTHER -> FALSE

\* Faulty variant: the kinds are tried in another order (Specialization first).
getValidRelationshipTypes_Reordered(sourceType, targetType) ==
    LET allTypes == <<"Specialization", "Composition", "Aggregation",
                      "Assignment", "Realization", "Serving", "Access",
                      "Influence", "Association", "Triggering", "Flow">>
    IN  SelectSeq(allTypes,
                  LAMBDA relType :
                      isValidRelationship(sourceType, targetType, relType))

getValidRelationshipTypes(sourceType, targetType) ==
    LET allTypes == <<"Composition", "Aggregation", "Assignment",
                      "Realization", "Serving", "Access", "Influence",
                      "Association", "Triggering", "Flow", "Specialization">>
    IN  SelectSeq(allTypes,
                  LAMBDA relType :
                      isValidRelationship(sourceType, targetType, relType))

getValidTargetTypes(sourceType, relationshipType) ==
    LET allTypes ==
            MotivationElementTypes \o StrategyElementTypes
              \o BusinessElementTypes \o ApplicationElementTypes
              \o TechnologyElementTypes \o ImplementationElementTypes
              \o CompositeElementTypes
    IN  SelectSeq(allTypes,
                  LAMBDA targetType :
                      isValidRelationship(sourceType, targetType,
                                          relationshipType))

\* The value a call of the engine leaves in `answer`.  outcome is "none"
\* before any call, "throw" when the call raised, else "valid"/"invalid"
\* (validateRelationship), "true"/"false" (isValidRelationship) or
\* "classified" (getElementCategory and getLayerForElementType).
NoAnswer ==
    [op |-> "none", outcome |-> "none", error |-> "none",
     suggestions |-> <<>>, category |-> "none", layer |-> "none"]

validateRelationship(sourceType, targetType, relationshipType) ==
    IF isValidRelationshipThrows(sourceType, targetType)
    THEN [NoAnswer EXCEPT !.op = "validate", !.outcome = "throw"]
    ELSE IF isValidRelationship(sourceType, targetType, relationshipType)
    THEN [NoAnswer EXCEPT !.op = "validate", !.outcome = "valid"]
    ELSE LET validTypes == getValidRelationshipTypes(sourceType, targetType)
         IN  IF Len(validTypes) = 0
             THEN [NoAnswer EXCEPT !.op = "validate", !.outcome = "invalid",
                                   !.error = "no valid relationships exist",
                                   !.suggestions = <<>>]
             ELSE [NoAnswer EXCEPT !.op = "validate", !.outcome = "invalid",
                                   !.error = "is not a valid relationship",
                                   !.suggestions = validTypes]

(***************************************************************************)
(* SpecValid: one query to the engine.  The query is any triple over the   *)
(* full element-kind enumeration plus one kind outside it, and the eleven  *)
(* relationship kinds plus one outside them.                               *)
(***************************************************************************)
UnknownElementType == "Junction"

UnknownRelationshipType == "Dependency"

QueryElementTypes == Range(AllElementTypes) \cup {UnknownElementType}

QueryRelationshipTypes == Range(RelationshipTypes) \cup {UnknownRelationshipType}

\* Values of the variables a specification does not use.
NoModel == [folders |-> <<>>, relationships |-> <<>>, diagrams |-> <<>>]

NoOp == [op |-> "none"]

NoQuery == [src |-> "none", tgt |-> "none", rel |-> "none"]

NoDoc == [root |-> "none"]

InitValid ==
    /\ query \in [src : QueryElementTypes, tgt : QueryElementTypes,
                  rel : QueryRelationshipTypes]
    /\ answer = NoAnswer
    /\ phase = "asked"
    /\ model = NoModel
    /\ lastOp = NoOp
    /\ nops = 0
    /\ orig = NoModel
    /\ doc = NoDoc
    /\ parsed = NoModel

\* isValidRelationship(query)
CallIsValid ==
    /\ phase = "asked"
    /\ answer' =
         IF isValidRelationshipThrows(query.src, query.tgt)
         THEN [NoAnswer EXCEPT !.op = "isValid", !.outcome = "throw"]
         ELSE IF isValidRelationship(query.src, query.tgt, query.rel)
              THEN [NoAnswer EXCEPT !.op = "isValid", !.outcome = "true"]
              ELSE [NoAnswer EXCEPT !.op = "isValid", !.outcome = "false"]
    /\ phase' = "answered"
    /\ UNCHANGED <<model, lastOp, nops, query, orig, doc, parsed>>

\* validateRelationship(query)
CallValidate ==
    /\ phase = "asked"
    /\ answer' = validateRelationship(query.src, query.tgt, query.rel)
    /\ phase' = "answered"
    /\ UNCHANGED <<model, lastOp, nops, query, orig, doc, parsed>>

\* getElementCategory(query.src) and getLayerForElementType(query.src)
CallClassify ==
    /\ phase = "asked"
    /\ answer' =
         [NoAnswer EXCEPT
            !.op = "classify",
            !.outcome = IF getLayerForElementType(query.src) = LayerThrows
                        THEN "throw" ELSE "classified",
            !.category = getElementCategory(query.src),
            !.layer = getLayerForElementType(query.src)]
    /\ phase' = "answered"
    /\ UNCHANGED <<model, lastOp, nops, query, orig, doc, parsed>>

NextValid == CallIsValid \/ CallValidate \/ CallClassify

SpecValid == InitValid /\ [][NextValid]_vars

EnumeratedQuery ==
    /\ Includes(AllElementTypes, query.src)
    /\ Includes(AllElementTypes, query.tgt)

(***************************************************************************)
(* The rule table of the specification, section 4.2, over category, layer  *)
(* and layerOrder.                                                         *)
(***************************************************************************)
layerOrder(layer) ==
    CASE layer = "Motivation"     -> 0
      [] layer = "Strategy"       -> 1
      [] layer = "Business"       -> 2
      [] layer = "Application"    -> 3
      [] layer = "Technology"     -> 4
      [] layer = "Physical"       -> 4
      [] layer = "Implementation" -> 5
      [] layer = "Composite"      -> 6

RuleTable(s, t, r) ==
    LET cs == getElementCategory(s)
        ct == getElementCategory(t)
        ls == getLayerForElementType(s)
        lt == getLayerForElementType(t)
        Behavior == {"BehaviorInternal", "BehaviorExternal"}
    IN  CASE r \in {"Composition", "Aggregation"} ->
               s = t \/ cs = "Composite" \/ ct = "Composite" \/ ls = lt
          [] r = "Specialization" -> s = t
          [] r = "Assignment" ->
               \/ (cs = "ActiveStructure" /\ ct \in Behavior)
               \/ (cs = "BehaviorInternal" /\ ct = "PassiveStructure")
               \/ (s = "WorkPackage" /\ cs = "ActiveStructure")
          [] r = "Realization" ->
               \/ (cs = "BehaviorInternal" /\ ct = "BehaviorExternal")
               \/ layerOrder(ls) > layerOrder(lt)
               \/ ct = "Strategy"
               \/ ct = "Motivation"
               \/ s = "Artifact"
          [] r = "Serving" ->
               \/ cs = "BehaviorExternal"
               \/ (cs = "ActiveStructure" /\ ct = "ActiveStructure")
               \/ layerOrder(ls) > layerOrder(lt)
               \/ (s = "Capability" /\ t = "ValueStream")
               \/ ls = lt
          [] r = "Access" ->
               cs \in (Behavior \cup {"Event"}) /\ ct = "PassiveStructure"
          [] r = "Influence" -> ct = "Motivation"
          [] r = "Triggering" ->
               {cs, ct} \cap (Behavior \cup {"Event", "ImplementationMigration"})
                  # {}
          [] r = "Flow" ->
               {cs, ct} \cap (Behavior \cup {"Event", "PassiveStructure"}) # {}
          [] r = "Association" -> TRUE
          [] OTHER -> FALSE

\* The fixed enumeration order in which suggestions are listed.
SuggestionOrder ==
    <<"Composition", "Aggregation", "Assignment", "Realization", "Serving",
      "Access", "Influence", "Association", "Triggering", "Flow",
      "Specialization">>

C4_ValidateSuggestions ==
    (phase = "answered" /\ answer.op = "validate" /\ EnumeratedQuery) =>
        /\ (answer.outcome = "valid")
              <=> RuleTable(query.src, query.tgt, query.rel)
        /\ answer.outcome # "valid" =>
              /\ answer.outcome = "invalid"
              /\ answer.suggestions =
                    SelectSeq(SuggestionOrder,
                              LAMBDA k : RuleTable(query.src, query.tgt, k))
              /\ ~Includes(answer.suggestions, query.rel)
        /\ query = [src |-> "DataObject", tgt |-> "BusinessActor",
                    rel |-> "Assignment"] =>
              /\ answer.outcome = "invalid"
              /\ answer.suggestions =
                    <<"Realization", "Serving", "Association", "Flow">>

\* C4 witness: the rejected Assignment from DataObject to BusinessActor.
C4_Witness ==
    /\ phase = "answered" /\ answer.op = "validate"
    /\ query = [src |-> "DataObject", tgt |-> "BusinessActor",
                rel |-> "Assignment"]
    /\ answer.outcome = "invalid"

\* C5: Association is valid between every pair of enumerated kinds, so an
\* invalid validate result always carries a non-empty suggestion list that
\* contains Association; "no valid relationships exist" is never returned.
C5_AssociationAlwaysSuggested ==
    (phase = "answered" /\ answer.op = "validate" /\ EnumeratedQuery) =>
        /\ query.rel = "Association" => answer.outcome = "valid"
        /\ answer.outcome = "invalid" =>
              /\ Len(answer.suggestions) > 0
              /\ Includes(answer.suggestions, "Association")
              /\ answer.error # "no valid relationships exist"

\* C5 witness: a rejected triple whose only legal alternative is Association.
C5_Witness ==
    /\ phase = "answered" /\ answer.op = "validate" /\ EnumeratedQuery
    /\ answer.outcome = "invalid"
    /\ answer.suggestions = <<"Association">>

\* C6: for every kind of the element-kind enumeration getElementCategory
\* returns one of the ten categories and getLayerForElementType returns one
\* of the eight layers without failing.
C6_ClassifierTotal ==
    (phase = "answered" /\ answer.op = "classify"
       /\ Includes(AllElementTypes, query.src)) =>
        /\ answer.outcome = "classified"
        /\ answer.category \in Categories
        /\ answer.layer \in Layers

\* C6 witness: a classified kind of the last list of the enumeration.
C6_Witness ==
    /\ phase = "answered" /\ answer.op = "classify"
    /\ query.src = "Location"
    /\ answer.category = "Composite" /\ answer.layer = "Composite"

(***************************************************************************)
(* The domain model (types.ts) and the mutation operations (writer.ts).    *)
(* An optional string field that is not set holds Undefined.               *)
(***************************************************************************)
Element(id, type, name, documentation) ==
    [id |-> id, type |-> type, name |-> name,
     documentation |-> documentation, properties |-> <<>>]

Relationship(id, type, sourceId, targetId) ==
    [id |-> id, type |-> type, sourceId |-> sourceId, targetId |-> targetId,
     name |-> Undefined, documentation |-> Undefined,
     accessType |-> Undefined, influenceModifier |-> Undefined]

Bounds(x, y, width, height) ==
    [x |-> x, y |-> y, width |-> width, height |-> height]

DiagramConnection(id, sourceId, targetId, relationshipId, bendpoints) ==
    [id |-> id, sourceId |-> sourceId, targetId |-> targetId,
     relationshipId |-> relationshipId, bendpoints |-> bendpoints]

DiagramObject(id, elementId, bounds, sourceConnections, children) ==
    [id |-> id, elementId |-> elementId, bounds |-> bounds,
     sourceConnections |-> sourceConnections,
     targetConnectionIds |-> <<>>, children |-> children]

Diagram(id, name, objects) ==
    [id |-> id, name |-> name, viewpoint |-> Undefined,
     documentation |-> Undefined, objects |-> objects]

Folder(id, name, type, elements, subfolders) ==
    [id |-> id, name |-> name, type |-> type, elements |-> elements,
     subfolders |-> subfolders]

\* createEmptyModel: the nine standard folders; generateId's random ids are
\* the fixed distinct strings f1..f9.
createEmptyModel(name, id) ==
    [id |-> id, name |-> name, version |-> "5.0.0",
     documentation |-> Undefined,
     folders |->
       << Folder("f1", "Strategy", "strategy", <<>>, <<>>),
          Folder("f2", "Business", "business", <<>>, <<>>),
          Folder("f3", "Application", "application", <<>>, <<>>),
          Folder("f4", "Technology & Physical", "technology", <<>>, <<>>),
          Folder("f5", "Motivation", "motivation", <<>>, <<>>),
          Folder("f6", "Implementation & Migration",
                 "implementation_migration", <<>>, <<>>),
          Folder("f7", "Other", "other", <<>>, <<>>),
          Folder("f8", "Relations", "relations", <<>>, <<>>),
          Folder("f9", "Views", "diagrams", <<>>, <<>>) >>,
     relationships |-> <<>>,
     diagrams |-> <<>>]

\* Faulty variant: the Physical kinds are sent to the 'other' folder.
getFolderTypeForElement_PhysicalOther(elementType) ==
    IF elementType \in {"Equipment", "Facility", "DistributionNetwork",
                        "Material"}
    THEN "other"
    ELSE LayerFolderTypes(getLayerForElementType(elementType))

\* The folder tag the writer's own table gives an element kind; a kind the
\* table does not list falls back to 'other'.
getFolderTypeForElement(elementType) ==
    IF elementType \in
         {"Stakeholder", "Driver", "Assessment", "Goal", "Outcome",
          "Principle", "Requirement", "Constraint", "Meaning", "Value"}
    THEN "motivation"
    ELSE IF elementType \in
         {"Resource", "Capability", "ValueStream", "CourseOfAction"}
    THEN "strategy"
    ELSE IF elementType \in
         {"BusinessActor", "BusinessRole", "BusinessCollaboration",
          "BusinessInterface", "BusinessProcess", "BusinessFunction",
          "BusinessInteraction", "BusinessEvent", "BusinessService",
          "BusinessObject", "Contract", "Representation", "Product"}
    THEN "business"
    ELSE IF elementType \in
         {"ApplicationComponent", "ApplicationCollaboration",
          "ApplicationInterface", "ApplicationFunction",
          "ApplicationInteraction", "ApplicationProcess",
          "ApplicationEvent", "ApplicationService", "DataObject"}
    THEN "application"
    ELSE IF elementType \in
         {"Node", "Device", "SystemSoftware", "TechnologyCollaboration",
          "TechnologyInterface", "Path", "CommunicationNetwork",
          "TechnologyFunction", "TechnologyProcess",
          "TechnologyInteraction", "TechnologyEvent", "TechnologyService",
          "Artifact", "Equipment", "Facility", "DistributionNetwork",
          "Material"}
    THEN "technology"
    ELSE IF elementType \in
         {"WorkPackage", "Deliverable", "ImplementationEvent", "Plateau",
          "Gap"}
    THEN "implementation_migration"
    ELSE IF elementType \in {"Grouping", "Location"}
    THEN "other"
    ELSE "other"

\* addToFolder of addElementToModel: depth-first, a folder before its
\* subfolders, stopping at the first folder with the tag.
RECURSIVE addToFolder(_, _, _)
addToFolder(folders, folderType, element) ==
    IF folders = <<>>
    THEN [found |-> FALSE, folders |-> <<>>]
    ELSE LET folder == Head(folders)
         IN  IF folder.type = folderType
             THEN [found |-> TRUE,
                   folders |->
                     <<[folder EXCEPT !.elements = Append(@, element)]>>
                       \o Tail(folders)]
             ELSE LET sub == addToFolder(folder.subfolders, folderType,
                                         element)
                  IN  IF sub.found
                      THEN [found |-> TRUE,
                            folders |->
                              <<[folder EXCEPT !.subfolders = sub.folders]>>
                                \o Tail(folders)]
                      ELSE LET rest == addToFolder(Tail(folders), folderType,
                                                   element)
                           IN  [found |-> rest.found,
                                folders |-> <<folder>> \o rest.folders]

addElementToModel(m, element) ==
    [m EXCEPT !.folders =
        addToFolder(@, getFolderTypeForElement(element.type), element).folders]

\* Faulty variant: only an Association is accepted.
addRelationshipToModel_AssociationOnly(m, relationship) ==
    IF relationship.type = "Association"
    THEN [m EXCEPT !.relationships = Append(@, relationship)]
    ELSE m

addRelationshipToModel(m, relationship) ==
    [m EXCEPT !.relationships = Append(@, relationship)]

addDiagramToModel(m, diagram) ==
    [m EXCEPT !.diagrams = Append(@, diagram)]

RECURSIVE removeFromFolder(_, _)
removeFromFolder(folders, elementId) ==
    [i \in 1..Len(folders) |->
        [folders[i] EXCEPT
           !.elements = SelectSeq(@, LAMBDA e : e.id # elementId),
           !.subfolders = removeFromFolder(@, elementId)]]

removeElementFromModel(m, elementId) ==
    [m EXCEPT
       !.folders = removeFromFolder(@, elementId),
       !.relationships =
          SelectSeq(@, LAMBDA r : r.sourceId # elementId
                                    /\ r.targetId # elementId),
       !.diagrams =
          [i \in 1..Len(@) |->
              [@[i] EXCEPT
                 !.objects = SelectSeq(@, LAMBDA o : o.elementId # elementId)]]]

removeRelationshipFromModel(m, relationshipId) ==
    [m EXCEPT
       !.relationships = SelectSeq(@, LAMBDA r : r.id # relationshipId),
       !.diagrams =
          [i \in 1..Len(@) |->
              [@[i] EXCEPT
                 !.objects =
                    [j \in 1..Len(@) |->
                        [@[j] EXCEPT
                           !.sourceConnections =
                              SelectSeq(@, LAMBDA c :
                                  c.relationshipId # relationshipId)]]]]]

\* The first element with the id in a sequence of elements (Array.find), 0
\* when there is none.
FindIndex(elements, elementId) ==
    IF \E i \in 1..Len(elements) : elements[i].id = elementId
    THEN CHOOSE i \in 1..Len(elements) :
            /\ elements[i].id = elementId
            /\ \A j \in 1..(i - 1) : elements[j].id # elementId
    ELSE 0

\* Faulty variant: a field absent from the updates is cleared.
ApplyUpdates_ClearsAbsent(element, updates) ==
    [element EXCEPT
       !.name = updates.name,
       !.documentation = updates.documentation,
       !.properties = IF updates.properties.set
                      THEN updates.properties.value ELSE <<>>]

\* updates: [name, documentation] hold a string or Undefined; properties is
\* [set |-> BOOLEAN, value |-> the new list].
ApplyUpdates(element, updates) ==
    [element EXCEPT
       !.name = IF updates.name # Undefined THEN updates.name ELSE @,
       !.documentation = IF updates.documentation # Undefined
                         THEN updates.documentation ELSE @,
       !.properties = IF updates.properties.set
                      THEN updates.properties.value ELSE @]

RECURSIVE updateInFolder(_, _, _)
updateInFolder(folders, elementId, updates) ==
    IF folders = <<>>
    THEN [found |-> FALSE, folders |-> <<>>]
    ELSE LET folder == Head(folders)
             k == FindIndex(folder.elements, elementId)
         IN  IF k # 0
             THEN [found |-> TRUE,
                   folders |->
                     <<[folder EXCEPT
                          !.elements[k] = ApplyUpdates(@, updates)]>>
                       \o Tail(folders)]
             ELSE LET sub == updateInFolder(folder.subfolders, elementId,
                                            updates)
                  IN  IF sub.found
                      THEN [found |-> TRUE,
                            folders |->
                              <<[folder EXCEPT !.subfolders = sub.folders]>>
                                \o Tail(folders)]
                      ELSE LET rest == updateInFolder(Tail(folders),
                                                      elementId, updates)
                           IN  [found |-> rest.found,
                                folders |-> <<folder>> \o rest.folders]

updateElementInModel(m, elementId, updates) ==
    [m EXCEPT !.folders = updateInFolder(@, elementId, updates).folders]

\* getAllElements: the elements of every folder, a folder before its
\* subfolders.
RECURSIVE collectFromFolders(_)
collectFromFolders(folders) ==
    IF folders = <<>> THEN <<>>
    ELSE Head(folders).elements
           \o collectFromFolders(Head(folders).subfolders)
           \o collectFromFolders(Tail(folders))

getAllElements(m) == collectFromFolders(m.folders)

\* Every diagram object of a list of objects, at any nesting depth, an
\* object before its children.
RECURSIVE AllObjects(_)
AllObjects(objects) ==
    IF objects = <<>> THEN <<>>
    ELSE <<Head(objects)>> \o AllObjects(Head(objects).children)
           \o AllObjects(Tail(objects))

AllModelObjects(m) ==
    Flatten([i \in 1..Len(m.diagrams) |-> AllObjects(m.diagrams[i].objects)])

AllModelConnections(m) ==
    LET objs == AllModelObjects(m)
    IN  Flatten([i \in 1..Len(objs) |-> objs[i].sourceConnections])

(***************************************************************************)
(* Spec: the mutation operations applied, in any order, to a Model that    *)
(* was created empty or read from a file.                                  *)
(***************************************************************************)
MaxOps == 3

ElementIds == {"e1", "e2"}

RelationshipIds == {"r1", "r2"}

\* Kinds the operations are exercised with: one per folder tag reached.
SpecElementTypes == {"BusinessActor", "Equipment"}

\* The kind addRelationshipToModel is exercised with: the validity engine
\* accepts it between elements of one kind and rejects it between the two
\* kinds of SpecElementTypes.
SpecRelationshipTypes == {"Composition"}

StdBounds == Bounds(10, 20, 120, 55)

\* The diagrams handed to addDiagramToModel: a top-level object for element
\* a that nests an object for element b (or none), with a connection for
\* relationship r leaving the top-level object and, when there is a nested
\* object, one for relationship q leaving the nested object.
NestedDiagram(a, b, r, q) ==
    Diagram("d1", "View",
      << DiagramObject("o1", a, StdBounds,
           << DiagramConnection("c1", "o1", "o2", r, <<>>) >>,
           << DiagramObject("o2", b, StdBounds,
                << DiagramConnection("c2", "o2", "o1", q, <<>>) >>,
                <<>>) >>) >>)

FlatDiagram(a, b, r) ==
    Diagram("d2", "View",
      << DiagramObject("o1", a, StdBounds,
           << DiagramConnection("c1", "o1", "o2", r, <<>>) >>, <<>>),
         DiagramObject("o2", b, StdBounds, <<>>, <<>>) >>)

DiagramInputs ==
    {NestedDiagram("e1", "e2", "r1", "r2"),
     NestedDiagram("e2", "e1", "r2", "r1"),
     FlatDiagram("e1", "e2", "r1"),
     FlatDiagram("e2", "e2", "r2")}

\* A Model as parseModelComplete returns it for a file whose Business
\* folder has an untyped subfolder holding element e1.
ParsedModel ==
    [id |-> "m2", name |-> "Parsed", version |-> "5.0.0",
     documentation |-> Undefined,
     folders |->
       << Folder("f2", "Business", "business", <<>>,
             << Folder("f21", "Actors", "",
                   << Element("e1", "BusinessActor", "A", Undefined) >>,
                   <<>>) >>),
          Folder("f4", "Technology & Physical", "technology", <<>>, <<>>),
          Folder("f8", "Relations", "relations", <<>>, <<>>),
          Folder("f9", "Views", "diagrams", <<>>, <<>>) >>,
     relationships |-> << Relationship("r1", "Association", "e1", "e2") >>,
     diagrams |-> << NestedDiagram("e2", "e1", "r1", "r1") >>]

UpdateInputs ==
    {[name |-> n, documentation |-> d,
      properties |-> [set |-> FALSE, value |-> <<>>]] :
        n \in {Undefined, "B"}, d \in {Undefined, "doc"}}
    \cup {[name |-> Undefined, documentation |-> Undefined,
           properties |-> [set |-> TRUE,
                           value |-> <<[key |-> "k", value |-> "v"]>>]]}

Init ==
    /\ model \in {createEmptyModel("New", "m1"), ParsedModel}
    /\ lastOp = NoOp
    /\ nops = 0
    /\ phase = "mutating"
    /\ query = NoQuery
    /\ answer = NoAnswer
    /\ orig = NoModel
    /\ doc = NoDoc
    /\ parsed = NoModel

AddElement ==
    /\ nops < MaxOps
    /\ \E id \in ElementIds, type \in SpecElementTypes :
          LET element == Element(id, type, "A", Undefined)
          IN  /\ model' = addElementToModel(model, element)
              /\ lastOp' = [op |-> "addElement", element |-> element]
    /\ nops' = nops + 1
    /\ UNCHANGED <<query, answer, orig, doc, parsed, phase>>

AddRelationship ==
    /\ nops < MaxOps
    /\ \E id \in RelationshipIds, s \in ElementIds, t \in ElementIds,
          type \in SpecRelationshipTypes :
          LET relationship == Relationship(id, type, s, t)
          IN  /\ model' = addRelationshipToModel(model, relationship)
              /\ lastOp' = [op |-> "addRelationship",
                            relationship |-> relationship]
    /\ nops' = nops + 1
    /\ UNCHANGED <<query, answer, orig, doc, parsed, phase>>

AddDiagram ==
    /\ nops < MaxOps
    /\ \E diagram \in DiagramInputs :
          /\ model' = addDiagramToModel(model, diagram)
          /\ lastOp' = [op |-> "addDiagram", diagram |-> diagram]
    /\ nops' = nops + 1
    /\ UNCHANGED <<query, answer, orig, doc, parsed, phase>>

RemoveElement ==
    /\ nops < MaxOps
    /\ \E id \in ElementIds :
          /\ model' = removeElementFromModel(model, id)
          /\ lastOp' = [op |-> "removeElement", id |-> id, before |-> model]
    /\ nops' = nops + 1
    /\ UNCHANGED <<query, answer, orig, doc, parsed, phase>>

RemoveRelationship ==
    /\ nops < MaxOps
    /\ \E id \in RelationshipIds :
          /\ model' = removeRelationshipFromModel(model, id)
          /\ lastOp' = [op |-> "removeRelationship", id |-> id,
                        before |-> model]
    /\ nops' = nops + 1
    /\ UNCHANGED <<query, answer, orig, doc, parsed, phase>>

UpdateElement ==
    /\ nops < MaxOps
    /\ \E id \in ElementIds, updates \in UpdateInputs :
          /\ model' = updateElementInModel(model, id, updates)
          /\ lastOp' = [op |-> "updateElement", id |-> id,
                        updates |-> updates, before |-> model]
    /\ nops' = nops + 1
    /\ UNCHANGED <<query, answer, orig, doc, parsed, phase>>

Next ==
    \/ AddElement
    \/ AddRelationship
    \/ AddDiagram
    \/ RemoveElement
    \/ RemoveRelationship
    \/ UpdateElement

Spec == Init /\ [][Next]_vars

(***************************************************************************)
(* Claims on the cascading removals, checked under Spec.                   *)
(***************************************************************************)
\* C1: after removeElement(model, id) no relationship has the id as source
\* or target, no folder at any depth contains an element with the id, and
\* no diagram object at any nesting depth references the id.
C1_RemoveElementLeavesNoReference ==
    lastOp.op = "removeElement" =>
        /\ \A i \in 1..Len(model.relationships) :
              /\ model.relationships[i].sourceId # lastOp.id
              /\ model.relationships[i].targetId # lastOp.id
        /\ \A e \in Range(getAllElements(model)) : e.id # lastOp.id
        /\ \A o \in Range(AllModelObjects(model)) : o.elementId # lastOp.id

\* The part of C1 the code does establish: relationships, folders and the
\* top-level objects of every diagram.
C1_TopLevelOnly ==
    lastOp.op = "removeElement" =>
        /\ \A i \in 1..Len(model.relationships) :
              /\ model.relationships[i].sourceId # lastOp.id
              /\ model.relationships[i].targetId # lastOp.id
        /\ \A e \in Range(getAllElements(model)) : e.id # lastOp.id
        /\ \A i \in 1..Len(model.diagrams) :
              \A o \in Range(model.diagrams[i].objects) :
                  o.elementId # lastOp.id

\* C2: after removeRelationship(model, rid) the relationship is gone and no
\* connection of any diagram object, top-level or nested, references rid.
C2_RemoveRelationshipLeavesNoConnection ==
    lastOp.op = "removeRelationship" =>
        /\ \A i \in 1..Len(model.relationships) :
              model.relationships[i].id # lastOp.id
        /\ \A c \in Range(AllModelConnections(model)) :
              c.relationshipId # lastOp.id

(***************************************************************************)
(* Text of an XML document.  Strings and numbers reach a document as text  *)
(* and come back through the XML parser and JavaScript's conversions; the  *)
(* conversions are tabulated over the vocabulary of texts the models of    *)
(* this development use.                                                   *)
(***************************************************************************)
\* String(n): the decimal text of an integer.
DecimalText(n) ==
    CASE n = 0 -> "0"
      [] n = 7 -> "7"
      [] n = 10 -> "10"
      [] n = 20 -> "20"
      [] n = 50 -> "50"
      [] n = 55 -> "55"
      [] n = 120 -> "120"
      [] n = 200 -> "200"
      [] n = 350 -> "350"
      [] n = 500 -> "500"
      [] n = 650 -> "650"

\* The texts that read as a number (parseInt, Number, and the value parsing
\* of the XML parser, which accepts leading zeros) and the number read.
NumericTexts ==
    {"0", "7", "007", "10", "20", "50", "55", "120", "200", "350", "500",
     "650"}

TextToNumber(s) ==
    CASE s = "0" -> 0
      [] s = "7" -> 7
      [] s = "007" -> 7
      [] s = "10" -> 10
      [] s = "20" -> 20
      [] s = "50" -> 50
      [] s = "55" -> 55
      [] s = "120" -> 120
      [] s = "200" -> 200
      [] s = "350" -> 350
      [] s = "500" -> 500
      [] s = "650" -> 650

\* String.prototype.trim.
Trim(s) == IF s = " A" THEN "A" ELSE s

\* JavaScript truthiness of an optional string: undefined and '' are falsy.
Truthy(s) == s # Undefined /\ s # ""

\* a || b on optional strings.
Or(a, b) == IF Truthy(a) THEN a ELSE b

\* A JavaScript number held in a field the types declare as a string.
NumberValue(n) == "<number " \o DecimalText(n) \o ">"

\* What the XML parser hands over for an attribute when it does not parse
\* attribute values (the default): the trimmed text, undefined when the
\* attribute is absent.
XmlAttributeValue(text) == IF text = Undefined THEN Undefined ELSE Trim(text)

\* What the XML parser hands over for the text of a tag: trimmed, and a
\* number when the text reads as one; undefined when the tag is absent.
XmlTagValue(text) ==
    IF text = Undefined THEN Undefined
    ELSE IF Trim(text) \in NumericTexts
         THEN NumberValue(TextToNumber(Trim(text)))
         ELSE Trim(text)

(***************************************************************************)
(* The hierarchical codec: writeModel (writer.ts) and parseModelComplete   *)
(* (parser.ts).  A document is the object tree handed to the XML builder;  *)
(* an attribute or child that is not written holds Undefined or <<>>.      *)
(***************************************************************************)
ElementTypeToXmlType(type) ==
    IF Includes(AllElementTypes, type) THEN "archimate:" \o type
    ELSE Undefined

XmlTypeToElementType(xml) ==
    IF \E t \in Range(AllElementTypes) : "archimate:" \o t = xml
    THEN CHOOSE t \in Range(AllElementTypes) : "archimate:" \o t = xml
    ELSE Undefined

RelationshipTypeToXmlType(type) ==
    IF Includes(RelationshipTypes, type)
    THEN "archimate:" \o type \o "Relationship"
    ELSE Undefined

XmlTypeToRelationshipType(xml) ==
    IF \E t \in Range(RelationshipTypes) :
          "archimate:" \o t \o "Relationship" = xml
    THEN CHOOSE t \in Range(RelationshipTypes) :
            "archimate:" \o t \o "Relationship" = xml
    ELSE Undefined

\* An `element` node of a folder with nothing written on it.
XmlElement ==
    [xsiType |-> Undefined, name |-> Undefined, id |-> Undefined,
     source |-> Undefined, target |-> Undefined, accessType |-> Undefined,
     modifier |-> Undefined, documentation |-> Undefined,
     property |-> <<>>, child |-> <<>>]

buildProperties(props) ==
    [i \in 1..Len(props) |->
        [key |-> props[i].key, value |-> props[i].value]]

buildElement(element) ==
    [XmlElement EXCEPT
       !.xsiType = ElementTypeToXmlType(element.type),
       !.name = element.name,
       !.id = element.id,
       !.documentation = IF Truthy(element.documentation)
                         THEN element.documentation ELSE Undefined,
       !.property = buildProperties(element.properties)]

\* accessMap of buildRelationship.
AccessTypeToCode(accessType) ==
    CASE accessType = "Read" -> "1"
      [] accessType = "Write" -> "2"
      [] accessType = "ReadWrite" -> "3"
      [] OTHER -> "3"

buildRelationship(rel) ==
    [XmlElement EXCEPT
       !.xsiType = RelationshipTypeToXmlType(rel.type),
       !.id = rel.id,
       !.source = rel.sourceId,
       !.target = rel.targetId,
       !.name = IF Truthy(rel.name) THEN rel.name ELSE Undefined,
       !.documentation = IF Truthy(rel.documentation)
                         THEN rel.documentation ELSE Undefined,
       !.accessType = IF rel.type = "Access" /\ Truthy(rel.accessType)
                      THEN AccessTypeToCode(rel.accessType) ELSE Undefined,
       !.modifier = IF rel.type = "Influence"
                        /\ Truthy(rel.influenceModifier)
                    THEN rel.influenceModifier ELSE Undefined]

buildConnection(conn) ==
    [xsiType |-> "archimate:Connection",
     id |-> conn.id,
     source |-> conn.sourceId,
     target |-> conn.targetId,
     archimateRelationship |->
        IF Truthy(conn.relationshipId) THEN conn.relationshipId
        ELSE Undefined,
     bendpoint |->
        [i \in 1..Len(conn.bendpoints) |->
            [x |-> DecimalText(conn.bendpoints[i].x),
             y |-> DecimalText(conn.bendpoints[i].y)]]]

\* targetConnections holds the ids that join(' ') separates by blanks; an
\* empty list writes no attribute.
RECURSIVE buildDiagramObject(_)
buildDiagramObject(diagObj) ==
    [xsiType |-> "archimate:DiagramObject",
     id |-> diagObj.id,
     archimateElement |->
        IF Truthy(diagObj.elementId) THEN diagObj.elementId ELSE Undefined,
     targetConnections |-> diagObj.targetConnectionIds,
     bounds |-> [x |-> DecimalText(diagObj.bounds.x),
                 y |-> DecimalText(diagObj.bounds.y),
                 width |-> DecimalText(diagObj.bounds.width),
                 height |-> DecimalText(diagObj.bounds.height)],
     sourceConnection |->
        [i \in 1..Len(diagObj.sourceConnections) |->
            buildConnection(diagObj.sourceConnections[i])],
     child |->
        [i \in 1..Len(diagObj.children) |->
            buildDiagramObject(diagObj.children[i])]]

\* buildDiagram writes id, name, documentation and the objects; the
\* viewpoint of a diagram is not written.
buildDiagram(diagram) ==
    [XmlElement EXCEPT
       !.xsiType = "archimate:ArchimateDiagramModel",
       !.name = diagram.name,
       !.id = diagram.id,
       !.documentation = IF Truthy(diagram.documentation)
                         THEN diagram.documentation ELSE Undefined,
       !.child = [i \in 1..Len(diagram.objects) |->
                     buildDiagramObject(diagram.objects[i])]]

RECURSIVE buildFolder(_)
buildFolder(folder) ==
    [name |-> folder.name,
     id |-> folder.id,
     type |-> IF Truthy(folder.type) THEN folder.type ELSE Undefined,
     element |-> [i \in 1..Len(folder.elements) |->
                     buildElement(folder.elements[i])],
     folder |-> [i \in 1..Len(folder.subfolders) |->
                    buildFolder(folder.subfolders[i])]]

\* writeModel: a top-level folder tagged 'relations' is written with the
\* Model's relationships as its children, one tagged 'diagrams' with the
\* Model's diagrams and the folder's own subfolders, any other folder as
\* buildFolder writes it.
writeModel(m) ==
    [root |-> "archimate:model",
     name |-> m.name,
     id |-> m.id,
     version |-> m.version,
     documentation |-> IF Truthy(m.documentation) THEN m.documentation
                       ELSE Undefined,
     folder |->
        [i \in 1..Len(m.folders) |->
            LET folder == m.folders[i]
            IN  IF folder.type = "relations"
                THEN [name |-> folder.name, id |-> folder.id,
                      type |-> folder.type,
                      element |->
                         [j \in 1..Len(m.relationships) |->
                             buildRelationship(m.relationships[j])],
                      folder |-> <<>>]
                ELSE IF folder.type = "diagrams"
                THEN [name |-> folder.name, id |-> folder.id,
                      type |-> folder.type,
                      element |->
                         [j \in 1..Len(m.diagrams) |->
                             buildDiagram(m.diagrams[j])],
                      folder |->
                         [j \in 1..Len(folder.subfolders) |->
                             buildFolder(folder.subfolders[j])]]
                ELSE buildFolder(folder)]]

\* parseInt(text, 10) of an attribute with its default.
parseIntOr(text, default) == TextToNumber(Or(XmlAttributeValue(text), default))

parseProperties(props) ==
    [i \in 1..Len(props) |->
        [key |-> XmlAttributeValue(props[i].key),
         value |-> XmlAttributeValue(props[i].value)]]

parseBounds(bounds) ==
    [x |-> parseIntOr(bounds.x, "0"),
     y |-> parseIntOr(bounds.y, "0"),
     width |-> parseIntOr(bounds.width, "120"),
     height |-> parseIntOr(bounds.height, "55")]

parseConnections(conns) ==
    [i \in 1..Len(conns) |->
        [id |-> XmlAttributeValue(conns[i].id),
         sourceId |-> XmlAttributeValue(conns[i].source),
         targetId |-> XmlAttributeValue(conns[i].target),
         relationshipId |->
            Or(XmlAttributeValue(conns[i].archimateRelationship), ""),
         bendpoints |->
            [j \in 1..Len(conns[i].bendpoint) |->
                [x |-> parseIntOr(conns[i].bendpoint[j].x, "0"),
                 y |-> parseIntOr(conns[i].bendpoint[j].y, "0")]]]]

RECURSIVE parseDiagramObjects(_)
parseDiagramObjects(children) ==
    [i \in 1..Len(children) |->
        [id |-> Or(XmlAttributeValue(children[i].id), ""),
         elementId |-> Or(XmlAttributeValue(children[i].archimateElement), ""),
         bounds |-> parseBounds(children[i].bounds),
         sourceConnections |-> parseConnections(children[i].sourceConnection),
         targetConnectionIds |-> children[i].targetConnections,
         children |-> parseDiagramObjects(children[i].child)]]

\* parseElement, parseRelationship and parseDiagram return null for a node
\* they do not recognise: the result is a sequence of at most one record.
parseElement(elem) ==
    LET xsiType == XmlAttributeValue(elem.xsiType)
    IN  IF ~Truthy(xsiType) THEN <<>>
        ELSE IF XmlTypeToElementType(xsiType) = Undefined THEN <<>>
        ELSE << [id |-> Or(XmlAttributeValue(elem.id), ""),
                 type |-> XmlTypeToElementType(xsiType),
                 name |-> Or(XmlAttributeValue(elem.name), ""),
                 documentation |-> XmlTagValue(elem.documentation),
                 properties |-> parseProperties(elem.property)] >>

\* accessMap of parseRelationship; a code it does not list gives undefined.
CodeToAccessType(code) ==
    CASE code = "1" -> "Read"
      [] code = "2" -> "Write"
      [] code = "3" -> "ReadWrite"
      [] code = "read" -> "Read"
      [] code = "write" -> "Write"
      [] code = "readWrite" -> "ReadWrite"
      [] OTHER -> Undefined

parseRelationship(elem) ==
    LET xsiType == XmlAttributeValue(elem.xsiType)
        relType == XmlTypeToRelationshipType(xsiType)
    IN  IF ~Truthy(xsiType) THEN <<>>
        ELSE IF relType = Undefined THEN <<>>
        ELSE << [id |-> Or(XmlAttributeValue(elem.id), ""),
                 type |-> relType,
                 sourceId |-> Or(XmlAttributeValue(elem.source), ""),
                 targetId |-> Or(XmlAttributeValue(elem.target), ""),
                 name |-> XmlAttributeValue(elem.name),
                 documentation |-> XmlTagValue(elem.documentation),
                 accessType |->
                    IF relType = "Access"
                         /\ Truthy(XmlAttributeValue(elem.accessType))
                    THEN CodeToAccessType(XmlAttributeValue(elem.accessType))
                    ELSE Undefined,
                 influenceModifier |->
                    IF relType = "Influence"
                         /\ Truthy(XmlAttributeValue(elem.modifier))
                    THEN XmlAttributeValue(elem.modifier)
                    ELSE Undefined] >>

parseDiagram(elem) ==
    IF XmlAttributeValue(elem.xsiType) # "archimate:ArchimateDiagramModel"
    THEN <<>>
    ELSE << [id |-> Or(XmlAttributeValue(elem.id), ""),
             name |-> Or(XmlAttributeValue(elem.name), ""),
             viewpoint |-> Undefined,
             documentation |-> XmlTagValue(elem.documentation),
             objects |-> parseDiagramObjects(elem.child)] >>

\* The two tests processFolder makes on the qualified type of a node.
IsRelationshipNode(elem) ==
    /\ Truthy(XmlAttributeValue(elem.xsiType))
    /\ XmlTypeToRelationshipType(XmlAttributeValue(elem.xsiType)) # Undefined

IsDiagramNode(elem) ==
    XmlAttributeValue(elem.xsiType) = "archimate:ArchimateDiagramModel"

\* processFolder: the folder it returns ...
RECURSIVE processFolder(_)
processFolder(xmlFolder) ==
    [id |-> XmlAttributeValue(xmlFolder.id),
     name |-> XmlAttributeValue(xmlFolder.name),
     type |-> Or(XmlAttributeValue(xmlFolder.type), ""),
     elements |->
        Flatten([i \in 1..Len(xmlFolder.element) |->
                    IF IsRelationshipNode(xmlFolder.element[i])
                         \/ IsDiagramNode(xmlFolder.element[i])
                    THEN <<>>
                    ELSE parseElement(xmlFolder.element[i])]),
     subfolders |->
        [i \in 1..Len(xmlFolder.folder) |->
            processFolder(xmlFolder.folder[i])]]

\* ... and what it pushes onto model.relationships and model.diagrams while
\* it walks a list of folders, a folder's own nodes before its subfolders'.
RECURSIVE processFolderRelationships(_)
processFolderRelationships(xmlFolders) ==
    IF xmlFolders = <<>> THEN <<>>
    ELSE LET xmlFolder == Head(xmlFolders)
         IN  Flatten([i \in 1..Len(xmlFolder.element) |->
                         IF IsRelationshipNode(xmlFolder.element[i])
                         THEN parseRelationship(xmlFolder.element[i])
                         ELSE <<>>])
               \o processFolderRelationships(xmlFolder.folder)
               \o processFolderRelationships(Tail(xmlFolders))

RECURSIVE processFolderDiagrams(_)
processFolderDiagrams(xmlFolders) ==
    IF xmlFolders = <<>> THEN <<>>
    ELSE LET xmlFolder == Head(xmlFolders)
         IN  Flatten([i \in 1..Len(xmlFolder.element) |->
                         IF ~IsRelationshipNode(xmlFolder.element[i])
                              /\ IsDiagramNode(xmlFolder.element[i])
                         THEN parseDiagram(xmlFolder.element[i])
                         ELSE <<>>])
               \o processFolderDiagrams(xmlFolder.folder)
               \o processFolderDiagrams(Tail(xmlFolders))

\* parseModelComplete on a document whose root is archimate:model.
parseModelComplete(xmlModel) ==
    [id |-> XmlAttributeValue(xmlModel.id),
     name |-> XmlAttributeValue(xmlModel.name),
     version |-> Or(XmlAttributeValue(xmlModel.version), "5.0.0"),
     documentation |-> XmlTagValue(xmlModel.documentation),
     folders |-> [i \in 1..Len(xmlModel.folder) |->
                     processFolder(xmlModel.folder[i])],
     relationships |-> processFolderRelationships(xmlModel.folder),
     diagrams |-> processFolderDiagrams(xmlModel.folder)]

(***************************************************************************)
(* The Models handed to the codecs: two elements, one relationship and one *)
(* diagram of two objects, varied in folder layout, in the strings of the  *)
(* first element, in the geometry and in the nesting of the objects.       *)
(***************************************************************************)
RoundTripIds == {"e1", "007"}

RoundTripNames == {"A", " A", ""}

RoundTripDocumentations == {Undefined, "", "doc"}

RoundTripRelationshipNames == {Undefined, "n"}

RoundTripCoordinates == {0, 10}

RoundTripWidths == {0, 120}

OtherElement == Element("e2", "Equipment", "B", Undefined)

\* The nine folders of createEmptyModel with the elements placed by
\* addElementToModel.
StandardLayout(element) ==
    addElementToModel(
        addElementToModel(createEmptyModel("M", "m1"), element),
        OtherElement)

\* A Model read from a file whose Business folder has a subfolder.
SubfolderLayout(element) ==
    [id |-> "m1", name |-> "M", version |-> "5.0.0",
     documentation |-> Undefined,
     folders |->
       << Folder("f2", "Business", "business", <<>>,
             << Folder("f21", "Actors", "", <<element>>, <<>>) >>),
          Folder("f4", "Technology & Physical", "technology",
                 <<OtherElement>>, <<>>),
          Folder("f8", "Relations", "relations", <<>>, <<>>),
          Folder("f9", "Views", "diagrams", <<>>, <<>>) >>,
     relationships |-> <<>>,
     diagrams |-> <<>>]

\* A Model read from a file that has no folder tagged 'relations' or
\* 'diagrams'.
LayerFoldersLayout(element) ==
    [id |-> "m1", name |-> "M", version |-> "5.0.0",
     documentation |-> Undefined,
     folders |->
       << Folder("f2", "Business", "business", <<element>>, <<>>),
          Folder("f4", "Technology & Physical", "technology",
                 <<OtherElement>>, <<>>) >>,
     relationships |-> <<>>,
     diagrams |-> <<>>]

\* A Model read from a file whose Relations and Views folders have
\* subfolders of their own.
SpecialSubfoldersLayout(element) ==
    [id |-> "m1", name |-> "M", version |-> "5.0.0",
     documentation |-> Undefined,
     folders |->
       << Folder("f2", "Business", "business", <<element>>, <<>>),
          Folder("f4", "Technology & Physical", "technology",
                 <<OtherElement>>, <<>>),
          Folder("f8", "Relations", "relations", <<>>,
             << Folder("f81", "Flows", "", <<>>, <<>>) >>),
          Folder("f9", "Views", "diagrams", <<>>,
             << Folder("f91", "Drafts", "", <<>>, <<>>) >>) >>,
     relationships |-> <<>>,
     diagrams |-> <<>>]

RoundTripLayouts(element) ==
    {StandardLayout(element), SubfolderLayout(element),
     LayerFoldersLayout(element), SpecialSubfoldersLayout(element)}

\* Object o1 (for element e2) with a connection that has bendpoints and
\* object o2 (for the first element) with one that has none; o2 is a child
\* of o1 when nested, the second top-level object otherwise.
RoundTripDiagram(elementId, nested, x, width) ==
    LET c1 == DiagramConnection("c1", "o1", "o2", "r1",
                 << [x |-> 0, y |-> 7], [x |-> 20, y |-> 10] >>)
        c2 == DiagramConnection("c2", "o2", "o1", "r1", <<>>)
        o2 == DiagramObject("o2", elementId, Bounds(x, 0, width, 55),
                            <<c2>>, <<>>)
    IN  Diagram("d1", "View",
          IF nested
          THEN << DiagramObject("o1", "e2", Bounds(10, 20, 120, 55),
                                <<c1>>, <<o2>>) >>
          ELSE << DiagramObject("o1", "e2", Bounds(10, 20, 120, 55),
                                <<c1>>, <<>>), o2 >>)

RoundTripModels ==
    UNION {
      { [layout EXCEPT
           !.relationships =
              << [Relationship("r1", "Association", id, "e2")
                    EXCEPT !.name = relName] >>,
           !.diagrams = << RoundTripDiagram(id, nested, x, width) >>] :
          layout \in RoundTripLayouts(Element(id, "BusinessActor", name,
                                              documentation)),
          relName \in RoundTripRelationshipNames,
          nested \in BOOLEAN,
          x \in RoundTripCoordinates,
          width \in RoundTripWidths } :
      id \in RoundTripIds, name \in RoundTripNames,
      documentation \in RoundTripDocumentations }

(***************************************************************************)
(* SpecHier: a Model is written by writeModel and the document is read     *)
(* back by parseModelComplete.                                             *)
(***************************************************************************)
InitHier ==
    /\ orig \in RoundTripModels
    /\ doc = NoDoc
    /\ parsed = NoModel
    /\ phase = "start"
    /\ model = NoModel
    /\ lastOp = NoOp
    /\ nops = 0
    /\ query = NoQuery
    /\ answer = NoAnswer

HierWrite ==
    /\ phase = "start"
    /\ doc' = writeModel(orig)
    /\ phase' = "written"
    /\ UNCHANGED <<model, lastOp, nops, query, answer, orig, parsed>>

\* parseModelComplete throws when the document has no archimate:model root.
HierRead ==
    /\ phase = "written"
    /\ IF doc.root = "archimate:model"
       THEN parsed' = parseModelComplete(doc) /\ phase' = "read"
       ELSE parsed' = NoModel /\ phase' = "failed"
    /\ UNCHANGED <<model, lastOp, nops, query, answer, orig, doc>>

NextHier ==
    \/ HierWrite
    \/ HierRead

SpecHier == InitHier /\ [][NextHier]_vars

\* What a round trip is asked to reproduce of a Model.
ElementFacts(m) ==
    {[id |-> e.id, type |-> e.type, name |-> e.name,
      documentation |-> e.documentation] : e \in Range(getAllElements(m))}

RelationshipFacts(m) ==
    {[id |-> r.id, type |-> r.type, name |-> r.name,
      documentation |-> r.documentation, sourceId |-> r.sourceId,
      targetId |-> r.targetId] : r \in Range(m.relationships)}

ObjectBounds(m) ==
    [i \in 1..Len(AllModelObjects(m)) |->
        [id |-> AllModelObjects(m)[i].id,
         bounds |-> AllModelObjects(m)[i].bounds]]

ConnectionBendpoints(m) ==
    [i \in 1..Len(AllModelConnections(m)) |->
        [id |-> AllModelConnections(m)[i].id,
         bendpoints |-> AllModelConnections(m)[i].bendpoints]]

\* C7: for any Model, writing it with writeModel and reading the result
\* back with parseModelComplete yields the same set of elements and of
\* relationships, each with identical id, kind, name and documentation (and
\* source and target ids), identical bounds for every diagram object and
\* identical bendpoints for every diagram connection.
C7_HierarchicalRoundTrip ==
    phase = "read" =>
        /\ Len(getAllElements(parsed)) = Len(getAllElements(orig))
        /\ ElementFacts(parsed) = ElementFacts(orig)
        /\ Len(parsed.relationships) = Len(orig.relationships)
        /\ RelationshipFacts(parsed) = RelationshipFacts(orig)
        /\ ObjectBounds(parsed) = ObjectBounds(orig)
        /\ ConnectionBendpoints(parsed) = ConnectionBendpoints(orig)

(***************************************************************************)
(* The flat codec: writeExchangeFormat (exchange-writer.ts) and            *)
(* parseExchangeFormat (exchange-reader.ts).  Its reader configures the    *)
(* XML parser with parseAttributeValue and trimValues, so an attribute or  *)
(* a tag text reaches the reader as a JavaScript string or number; such a  *)
(* value is a record tagged with its type.                                 *)
(***************************************************************************)
JsStr(s) == [t |-> "string", s |-> s, n |-> 0]

JsNum(n) == [t |-> "number", s |-> "", n |-> n]

JsUndefined == [t |-> "undefined", s |-> "", n |-> 0]

JsNaN == [t |-> "NaN", s |-> "", n |-> 0]

\* The value the XML parser makes of a text it parses: trimmed, a number
\* when the trimmed text reads as one (leading zeros allowed), a string
\* otherwise; undefined for an absent attribute.
ParsedValue(text) ==
    IF text = Undefined THEN JsUndefined
    ELSE IF Trim(text) \in NumericTexts
         THEN JsNum(TextToNumber(Trim(text)))
         ELSE JsStr(Trim(text))

JsTruthy(v) ==
    CASE v.t = "string" -> v.s # ""
      [] v.t = "number" -> v.n # 0
      [] v.t = "object" -> TRUE
      [] OTHER -> FALSE

JsOr(a, b) == IF JsTruthy(a) THEN a ELSE b

\* String(v).
JsToString(v) ==
    CASE v.t = "string" -> v.s
      [] v.t = "number" -> DecimalText(v.n)
      [] v.t = "object" -> "[object Object]"
      [] v.t = "NaN" -> "NaN"
      [] OTHER -> "undefined"

\* Number(v).
JsToNumber(v) ==
    CASE v.t = "number" -> v
      [] v.t = "string" ->
            IF v.s \in NumericTexts THEN JsNum(TextToNumber(v.s))
            ELSE IF v.s = "" THEN JsNum(0) ELSE JsNaN
      [] OTHER -> JsNaN

\* Number(v) || default.
NumberOr(v, default) ==
    IF JsTruthy(JsToNumber(v)) THEN JsToNumber(v).n ELSE default

\* String(v || '') of an attribute.
StringOrEmpty(text) == JsToString(JsOr(ParsedValue(text), JsStr("")))

\* A localized text node { xml:lang, #text } as the writer builds it, and
\* the absent node.
LocalizedText(s) == [present |-> TRUE, lang |-> "en", text |-> s]

NoNode == [present |-> FALSE, lang |-> "", text |-> ""]

OptionalLocalizedText(s) == IF Truthy(s) THEN LocalizedText(s) ELSE NoNode

\* What the XML parser hands over for such a node: an object that has a
\* #text member only when the trimmed text is not empty.
ParsedNode(node) ==
    IF ~node.present THEN JsUndefined
    ELSE IF Trim(node.text) = ""
         THEN [t |-> "object", hasText |-> FALSE, text |-> JsUndefined]
         ELSE [t |-> "object", hasText |-> TRUE,
               text |-> ParsedValue(node.text)]

getText(value) ==
    IF ~JsTruthy(value) THEN ""
    ELSE IF value.t = "string" THEN value.s
    ELSE IF value.t = "object"
         THEN IF value.hasText THEN JsToString(value.text)
              ELSE JsToString(value)
    ELSE JsToString(value)

exchange_buildElement(element) ==
    [identifier |-> element.id,
     xsiType |-> element.type,
     name |-> LocalizedText(element.name),
     documentation |-> OptionalLocalizedText(element.documentation)]

exchange_buildRelationship(rel) ==
    [identifier |-> rel.id,
     xsiType |-> rel.type,
     source |-> rel.sourceId,
     target |-> rel.targetId,
     name |-> OptionalLocalizedText(rel.name),
     documentation |-> OptionalLocalizedText(rel.documentation)]

\* The bounds are numbers; the builder writes their decimal text.
buildDiagramNode(obj) ==
    [identifier |-> obj.id,
     elementRef |-> obj.elementId,
     x |-> DecimalText(obj.bounds.x),
     y |-> DecimalText(obj.bounds.y),
     w |-> DecimalText(obj.bounds.width),
     h |-> DecimalText(obj.bounds.height)]

exchange_buildConnection(conn) ==
    [identifier |-> conn.id,
     relationshipRef |-> conn.relationshipId,
     source |-> conn.sourceId,
     target |-> conn.targetId]

\* buildView: collectObjects pushes every object, at any depth, onto one
\* list of nodes and its connections onto one list of connections, an
\* object before its children.
buildView(diagram) ==
    [identifier |-> diagram.id,
     name |-> LocalizedText(diagram.name),
     viewpoint |-> IF Truthy(diagram.viewpoint) THEN diagram.viewpoint
                   ELSE Undefined,
     documentation |-> OptionalLocalizedText(diagram.documentation),
     node |->
        [i \in 1..Len(AllObjects(diagram.objects)) |->
            buildDiagramNode(AllObjects(diagram.objects)[i])],
     connection |->
        Flatten([i \in 1..Len(AllObjects(diagram.objects)) |->
            [j \in 1..Len(AllObjects(diagram.objects)[i].sourceConnections)
               |-> exchange_buildConnection(
                      AllObjects(diagram.objects)[i].sourceConnections[j])]])]

writeExchangeFormat(m) ==
    [root |-> "model",
     identifier |-> m.id,
     name |-> LocalizedText(m.name),
     documentation |-> OptionalLocalizedText(m.documentation),
     elements |-> [i \in 1..Len(getAllElements(m)) |->
                      exchange_buildElement(getAllElements(m)[i])],
     relationships |-> [i \in 1..Len(m.relationships) |->
                           exchange_buildRelationship(m.relationships[i])],
     views |-> [i \in 1..Len(m.diagrams) |-> buildView(m.diagrams[i])]]

mapElementType(exchangeType) ==
    IF Includes(AllElementTypes, exchangeType) THEN exchangeType
    ELSE Undefined

\* mapRelationshipType: a trailing "Relationship" is removed before the
\* lookup.
mapRelationshipType(exchangeType) ==
    IF Includes(RelationshipTypes, exchangeType) THEN exchangeType
    ELSE IF \E t \in Range(RelationshipTypes) :
               t \o "Relationship" = exchangeType
    THEN CHOOSE t \in Range(RelationshipTypes) :
            t \o "Relationship" = exchangeType
    ELSE Undefined

createFolderStructure ==
    << Folder("folder-motivation", "Motivation", "motivation", <<>>, <<>>),
       Folder("folder-strategy", "Strategy", "strategy", <<>>, <<>>),
       Folder("folder-business", "Business", "business", <<>>, <<>>),
       Folder("folder-application", "Application", "application",
              <<>>, <<>>),
       Folder("folder-technology", "Technology & Physical", "technology",
              <<>>, <<>>),
       Folder("folder-implementation", "Implementation & Migration",
              "implementation_migration", <<>>, <<>>),
       Folder("folder-other", "Other", "other", <<>>, <<>>),
       Folder("folder-relations", "Relations", "relations", <<>>, <<>>),
       Folder("folder-diagrams", "Views", "diagrams", <<>>, <<>>) >>

\* getFolderForType: the tag of the folder an element kind is pushed into.
getFolderForType(folders, elementType) ==
    LET folderType == LayerFolderTypes(getLayerForElementType(elementType))
    IN  IF \E i \in 1..Len(folders) : folders[i].type = folderType
        THEN folderType ELSE "other"

exchange_parseElement(elementNode) ==
    LET typeAttr == StringOrEmpty(elementNode.xsiType)
    IN  IF mapElementType(typeAttr) = Undefined THEN <<>>
        ELSE << [id |-> StringOrEmpty(elementNode.identifier),
                 type |-> mapElementType(typeAttr),
                 name |-> getText(ParsedNode(elementNode.name)),
                 documentation |->
                    Or(getText(ParsedNode(elementNode.documentation)),
                       Undefined),
                 properties |-> <<>>] >>

exchange_parseRelationship(relNode) ==
    LET typeAttr == StringOrEmpty(relNode.xsiType)
    IN  IF mapRelationshipType(typeAttr) = Undefined THEN <<>>
        ELSE << [id |-> StringOrEmpty(relNode.identifier),
                 type |-> mapRelationshipType(typeAttr),
                 sourceId |-> StringOrEmpty(relNode.source),
                 targetId |-> StringOrEmpty(relNode.target),
                 name |-> Or(getText(ParsedNode(relNode.name)), Undefined),
                 documentation |->
                    Or(getText(ParsedNode(relNode.documentation)),
                       Undefined),
                 accessType |-> Undefined,
                 influenceModifier |-> Undefined] >>

\* parseDiagramObject: no children and, until parseDiagram assigns them, no
\* connections.
parseDiagramObject(nodeData) ==
    [id |-> StringOrEmpty(nodeData.identifier),
     elementId |-> StringOrEmpty(nodeData.elementRef),
     bounds |-> [x |-> NumberOr(ParsedValue(nodeData.x), 0),
                 y |-> NumberOr(ParsedValue(nodeData.y), 0),
                 width |-> NumberOr(ParsedValue(nodeData.w), 120),
                 height |-> NumberOr(ParsedValue(nodeData.h), 55)],
     sourceConnections |-> <<>>,
     targetConnectionIds |-> <<>>,
     children |-> <<>>]

\* parseConnection reads no bendpoints.
parseConnection(connData) ==
    [id |-> StringOrEmpty(connData.identifier),
     sourceId |-> StringOrEmpty(connData.source),
     targetId |-> StringOrEmpty(connData.target),
     relationshipId |-> StringOrEmpty(connData.relationshipRef),
     bendpoints |-> <<>>]

\* parseDiagram: every node becomes a top-level object; an object gets the
\* connections whose sourceId is its id.
exchange_parseDiagram(viewData) ==
    LET connections == [i \in 1..Len(viewData.connection) |->
                           parseConnection(viewData.connection[i])]
    IN  [id |-> StringOrEmpty(viewData.identifier),
         name |-> getText(ParsedNode(viewData.name)),
         viewpoint |-> Or(StringOrEmpty(viewData.viewpoint), Undefined),
         documentation |->
            Or(getText(ParsedNode(viewData.documentation)), Undefined),
         objects |->
            [i \in 1..Len(viewData.node) |->
                [parseDiagramObject(viewData.node[i]) EXCEPT
                   !.sourceConnections =
                      SelectSeq(connections, LAMBDA c :
                          c.sourceId =
                             parseDiagramObject(viewData.node[i]).id)]]]

\* The document parseExchangeFormat works on when the root is neither
\* model nor archimate:model.
EmptyModelData ==
    [root |-> "none", identifier |-> Undefined, name |-> NoNode,
     documentation |-> NoNode, elements |-> <<>>, relationships |-> <<>>,
     views |-> <<>>]

parseExchangeFormat(document) ==
    LET modelData == IF document.root \in {"model", "archimate:model"}
                     THEN document ELSE EmptyModelData
        elements == Flatten([i \in 1..Len(modelData.elements) |->
                       exchange_parseElement(modelData.elements[i])])
        folders == createFolderStructure
    IN  [id |-> JsToString(JsOr(ParsedValue(modelData.identifier),
                              JsStr("model-1"))),
         name |-> Or(getText(ParsedNode(modelData.name)), "Imported Model"),
         version |-> "5.0.0",
         documentation |->
            Or(getText(ParsedNode(modelData.documentation)), Undefined),
         folders |->
            [i \in 1..Len(folders) |->
                [folders[i] EXCEPT
                   !.elements =
                      SelectSeq(elements, LAMBDA e :
                          getFolderForType(folders, e.type)
                             = folders[i].type)]],
         relationships |->
            Flatten([i \in 1..Len(modelData.relationships) |->
                exchange_parseRelationship(modelData.relationships[i])]),
         diagrams |->
            [i \in 1..Len(modelData.views) |->
                exchange_parseDiagram(modelData.views[i])]]

(***************************************************************************)
(* SpecFlat: a Model is written by writeExchangeFormat and the document is *)
(* read back by parseExchangeFormat.                                       *)
(***************************************************************************)
InitFlat ==
    /\ orig \in RoundTripModels
    /\ doc = NoDoc
    /\ parsed = NoModel
    /\ phase = "start"
    /\ model = NoModel
    /\ lastOp = NoOp
    /\ nops = 0
    /\ query = NoQuery
    /\ answer = NoAnswer

FlatWrite ==
    /\ phase = "start"
    /\ doc' = writeExchangeFormat(orig)
    /\ phase' = "written"
    /\ UNCHANGED <<model, lastOp, nops, query, answer, orig, parsed>>

\* getFolderForType throws on a kind getLayerForElementType does not know.
FlatRead ==
    /\ phase = "written"
    /\ IF \E i \in 1..Len(doc.elements) :
             \E e \in Range(exchange_parseElement(doc.elements[i])) :
                 getLayerForElementType(e.type) = LayerThrows
       THEN parsed' = NoModel /\ phase' = "failed"
       ELSE parsed' = parseExchangeFormat(doc) /\ phase' = "read"
    /\ UNCHANGED <<model, lastOp, nops, query, answer, orig, doc>>

NextFlat ==
    \/ FlatWrite
    \/ FlatRead

SpecFlat == InitFlat /\ [][NextFlat]_vars

IdentityFacts(items) ==
    {[id |-> i.id, type |-> i.type, name |-> i.name] : i \in Range(items)}

\* C8: for any Model, parseExchangeFormat(writeExchangeFormat(model)) has
\* the same number of elements, relationships and diagrams as the original
\* and for each of them the same id, kind and name (for relationships also
\* the same sourceId and targetId); the folder hierarchy need not survive.
C8_FlatRoundTrip ==
    phase = "read" =>
        /\ Len(getAllElements(parsed)) = Len(getAllElements(orig))
        /\ Len(parsed.relationships) = Len(orig.relationships)
        /\ Len(parsed.diagrams) = Len(orig.diagrams)
        /\ IdentityFacts(getAllElements(parsed))
              = IdentityFacts(getAllElements(orig))
        /\ {[id |-> r.id, type |-> r.type, name |-> r.name,
             sourceId |-> r.sourceId, targetId |-> r.targetId] :
               r \in Range(parsed.relationships)}
              = {[id |-> r.id, type |-> r.type, name |-> r.name,
                  sourceId |-> r.sourceId, targetId |-> r.targetId] :
                    r \in Range(orig.relationships)}
        /\ {[id |-> d.id, name |-> d.name] : d \in Range(parsed.diagrams)}
              = {[id |-> d.id, name |-> d.name] : d \in Range(orig.diagrams)}

\* C9: for every diagram object with non-negative integer bounds, zero
\* values included, the bounds parseExchangeFormat reads back after
\* writeExchangeFormat equal the original bounds.
C9_FlatBoundsRoundTrip ==
    phase = "read" =>
        /\ Len(AllModelObjects(parsed)) = Len(AllModelObjects(orig))
        /\ \A i \in 1..Len(AllModelObjects(orig)) :
              AllModelObjects(parsed)[i].bounds
                 = AllModelObjects(orig)[i].bounds

\* The parent of every diagram object of a Model, TopLevel for an object
\* of a diagram's own list.
TopLevel == "<top-level>"

ObjectParents(m) ==
    {[id |-> m.diagrams[i].objects[j].id, parent |-> TopLevel] :
        <<i, j>> \in {<<i, j>> \in (1..Len(m.diagrams)) \X (1..2) :
                         j <= Len(m.diagrams[i].objects)}}
    \cup {[id |-> c.id, parent |-> o.id] :
            <<o, c>> \in {<<o, c>> \in Range(AllModelObjects(m))
                                         \X Range(AllModelObjects(m)) :
                             c \in Range(o.children)}}

\* Every connection with the object whose outgoing list holds it.
ConnectionOwners(m) ==
    UNION {{[id |-> c.id, owner |-> o.id, sourceId |-> c.sourceId,
             targetId |-> c.targetId, relationshipId |-> c.relationshipId] :
               c \in Range(o.sourceConnections)} :
             o \in Range(AllModelObjects(m))}

\* C10: after writeExchangeFormat then parseExchangeFormat every diagram
\* object has the same parent object (or is top-level) as before, and every
\* diagram connection is in the outgoing-connection list of the same source
\* object with the same source and target object ids and relationship id.
C10_FlatPreservesNestingAndTopology ==
    phase = "read" =>
        /\ ObjectParents(parsed) = ObjectParents(orig)
        /\ ConnectionOwners(parsed) = ConnectionOwners(orig)

(***************************************************************************)
(* SpecPlace: addElementToModel applied once, with an element of any kind  *)
(* of the enumeration, to Models of different folder layouts.              *)
(***************************************************************************)
\* A Model read from a file in which a folder tagged 'business' is nested
\* under an untagged folder that precedes the top-level Business folder,
\* and in which the only 'technology' folder is a subfolder.
DeepLayout ==
    [id |-> "m3", name |-> "Deep", version |-> "5.0.0",
     documentation |-> Undefined,
     folders |->
       << Folder("g1", "Group", "", <<>>,
             << Folder("g11", "Nested business", "business", <<>>, <<>>) >>),
          Folder("g2", "Business", "business",
                 << Element("e1", "BusinessActor", "A", Undefined) >>, <<>>),
          Folder("g3", "Other", "other", <<>>,
             << Folder("g31", "Nested technology", "technology",
                       <<>>, <<>>) >>) >>,
     relationships |-> << Relationship("r1", "Association", "e1", "e1") >>,
     diagrams |-> <<>>]

PlaceLayouts == {createEmptyModel("New", "m1"), ParsedModel, DeepLayout}

InitPlace ==
    /\ model \in PlaceLayouts
    /\ lastOp = NoOp
    /\ nops = 0
    /\ phase = "placing"
    /\ query = NoQuery
    /\ answer = NoAnswer
    /\ orig = NoModel
    /\ doc = NoDoc
    /\ parsed = NoModel

PlaceElement ==
    /\ phase = "placing"
    /\ \E type \in Range(AllElementTypes) :
          LET element == Element("n1", type, "N", Undefined)
          IN  /\ model' = addElementToModel(model, element)
              /\ lastOp' = [op |-> "addElement", element |-> element,
                            before |-> model]
    /\ phase' = "placed"
    /\ UNCHANGED <<nops, query, answer, orig, doc, parsed>>

NextPlace == PlaceElement

SpecPlace == InitPlace /\ [][NextPlace]_vars

\* The folders of a folder list in depth-first pre-order: a folder, then
\* its subfolders, then its next sibling.
RECURSIVE PreOrder(_)
PreOrder(folders) ==
    IF folders = <<>> THEN <<>>
    ELSE <<Head(folders)>> \o PreOrder(Head(folders).subfolders)
           \o PreOrder(Tail(folders))

\* C11: addElement appends the element to exactly one folder, the first in
\* depth-first pre-order whose tag is the one LayerFolderTypes assigns to
\* the layer of the element's kind; with no such folder the model is left
\* unchanged; relationships, diagrams and every other folder never change.
C11_AddElementPlacement ==
    phase = "placed" =>
        LET before == lastOp.before
            element == lastOp.element
            tag == LayerFolderTypes(getLayerForElementType(element.type))
            pre == PreOrder(before.folders)
            post == PreOrder(model.folders)
            hits == {i \in 1..Len(pre) : pre[i].type = tag}
        IN  /\ model.relationships = before.relationships
            /\ model.diagrams = before.diagrams
            /\ hits = {} => model = before
            /\ Len(post) = Len(pre)
            /\ \A i \in 1..Len(pre) :
                  /\ post[i].id = pre[i].id
                  /\ post[i].name = pre[i].name
                  /\ post[i].type = pre[i].type
                  /\ Len(post[i].subfolders) = Len(pre[i].subfolders)
                  /\ post[i].elements =
                        IF i \in hits /\ \A j \in hits : i <= j
                        THEN Append(pre[i].elements, element)
                        ELSE pre[i].elements

\* C11 witness: a Business kind went into the nested folder that precedes
\* the top-level Business folder, and a Physical kind into a 'technology'
\* subfolder is a separate case of the same walk.
C11_Witness ==
    /\ phase = "placed"
    /\ lastOp.before = DeepLayout
    /\ lastOp.element.type = "BusinessActor"
    /\ model.folders[1].subfolders[1].elements = <<lastOp.element>>
    /\ model.folders[2].elements = DeepLayout.folders[2].elements

(***************************************************************************)
(* Claims on updateElement and on the appending operations, checked under  *)
(* Spec.                                                                   *)
(***************************************************************************)
\* A folder without the elements it holds, for comparing folder trees.
FolderShape(folders) ==
    [i \in 1..Len(PreOrder(folders)) |->
        [id |-> PreOrder(folders)[i].id,
         name |-> PreOrder(folders)[i].name,
         type |-> PreOrder(folders)[i].type,
         elements |-> Len(PreOrder(folders)[i].elements),
         subfolders |-> Len(PreOrder(folders)[i].subfolders)]]

\* C12: updateElement(model, id, partial) changes only the fields name,
\* documentation and properties that are present in partial, on the
\* element with that id (the first one found); absent fields keep their
\* value, id and kind never change, every other element, every
\* relationship and every diagram is unchanged, and when no element has
\* the id the model is unchanged.
C12_UpdateElementFrame ==
    lastOp.op = "updateElement" =>
        LET before == lastOp.before
            updates == lastOp.updates
            pre == getAllElements(before)
            post == getAllElements(model)
            hits == {i \in 1..Len(pre) : pre[i].id = lastOp.id}
        IN  /\ model.relationships = before.relationships
            /\ model.diagrams = before.diagrams
            /\ FolderShape(model.folders) = FolderShape(before.folders)
            /\ hits = {} => model = before
            /\ Len(post) = Len(pre)
            /\ \A i \in 1..Len(pre) :
                  IF i \in hits /\ \A j \in hits : i <= j
                  THEN /\ post[i].id = pre[i].id
                       /\ post[i].type = pre[i].type
                       /\ post[i].name =
                             IF updates.name # Undefined THEN updates.name
                             ELSE pre[i].name
                       /\ post[i].documentation =
                             IF updates.documentation # Undefined
                             THEN updates.documentation
                             ELSE pre[i].documentation
                       /\ post[i].properties =
                             IF updates.properties.set
                             THEN updates.properties.value
                             ELSE pre[i].properties
                  ELSE post[i] = pre[i]

\* C12 witness: an update that carries a name and no documentation was
\* applied to an element that had a documentation, which it kept.
C12_Witness ==
    /\ lastOp.op = "updateElement"
    /\ lastOp.updates.name = "B"
    /\ lastOp.updates.documentation = Undefined
    /\ \E e \in Range(getAllElements(lastOp.before)) :
          e.id = lastOp.id /\ e.documentation = "doc" /\ e.name = "A"
    /\ \E e \in Range(getAllElements(model)) :
          e.id = lastOp.id /\ e.documentation = "doc" /\ e.name = "B"

\* C13: the appending operations never check legality: addRelationship
\* always appends exactly its argument at the end of model.relationships,
\* also when the triple of kinds is rejected by isValidRelationship or an
\* endpoint references no element; addDiagram likewise appends to
\* model.diagrams; both leave the folders unchanged.
C13_AddNeverValidates ==
    [][ /\ lastOp'.op = "addRelationship" =>
             /\ model'.relationships =
                   Append(model.relationships, lastOp'.relationship)
             /\ model'.folders = model.folders
             /\ model'.diagrams = model.diagrams
        /\ lastOp'.op = "addDiagram" =>
             /\ model'.diagrams = Append(model.diagrams, lastOp'.diagram)
             /\ model'.folders = model.folders
             /\ model'.relationships = model.relationships ]_vars

\* C13 witness: a relationship whose triple isValidRelationship rejects was
\* appended behind an existing one.
C13_Witness ==
    /\ lastOp.op = "addRelationship"
    /\ Len(model.relationships) = 2
    /\ model.relationships[2] = lastOp.relationship
    /\ \E s \in Range(getAllElements(model)) :
          \E t \in Range(getAllElements(model)) :
             /\ s.id = lastOp.relationship.sourceId
             /\ t.id = lastOp.relationship.targetId
             /\ ~isValidRelationship(s.type, t.type, lastOp.relationship.type)

\* C14: element ids are unique within a Model: starting from the Model of
\* createEmptyModel, after any sequence of mutation operations no two
\* elements anywhere in the folder tree have the same id.
C14_ElementIdsUnique ==
    model.id = createEmptyModel("New", "m1").id =>
        \A i \in 1..Len(getAllElements(model)) :
            \A j \in 1..Len(getAllElements(model)) :
                getAllElements(model)[i].id = getAllElements(model)[j].id
                    => i = j

(***************************************************************************)
(* The first hierarchical reader, parseModel (parser.ts): folders hold the *)
(* nodes parseElement recognises, relationships are not extracted, and     *)
(* diagrams are taken from the top-level folders tagged 'diagrams'.        *)
(***************************************************************************)
RECURSIVE parseFolder(_)
parseFolder(xmlFolder) ==
    [id |-> XmlAttributeValue(xmlFolder.id),
     name |-> XmlAttributeValue(xmlFolder.name),
     type |-> Or(XmlAttributeValue(xmlFolder.type), ""),
     elements |->
        Flatten([i \in 1..Len(xmlFolder.element) |->
                    parseElement(xmlFolder.element[i])]),
     subfolders |->
        [i \in 1..Len(xmlFolder.folder) |-> parseFolder(xmlFolder.folder[i])]]

\* extractRelationships has an empty body: it adds nothing.
extractRelationships(folder, relationships) == relationships

RECURSIVE extractDiagrams(_)
extractDiagrams(xmlFolders) ==
    IF xmlFolders = <<>> THEN <<>>
    ELSE Flatten([i \in 1..Len(Head(xmlFolders).element) |->
                     parseDiagram(Head(xmlFolders).element[i])])
           \o extractDiagrams(Head(xmlFolders).folder)
           \o extractDiagrams(Tail(xmlFolders))

\* parseModel on a document whose root is archimate:model.
parseModel(xmlModel) ==
    [id |-> XmlAttributeValue(xmlModel.id),
     name |-> XmlAttributeValue(xmlModel.name),
     version |-> Or(XmlAttributeValue(xmlModel.version), "5.0.0"),
     documentation |-> XmlTagValue(xmlModel.documentation),
     folders |-> [i \in 1..Len(xmlModel.folder) |->
                     parseFolder(xmlModel.folder[i])],
     relationships |-> extractRelationships(xmlModel.folder, <<>>),
     diagrams |->
        extractDiagrams(
           SelectSeq(xmlModel.folder, LAMBDA f :
               Or(XmlAttributeValue(f.type), "") = "diagrams"))]

\* The message both hierarchical readers throw without the root element.
MissingRootError ==
    "Invalid ArchiMate model: missing archimate:model root element"

(***************************************************************************)
(* SpecRead: a reader applied to a document that did not necessarily come  *)
(* from this program's writers: Access relationships with any access code, *)
(* and documents whose root element is not the one the reader looks for.   *)
(***************************************************************************)
\* The access codes documents carry: the six the reader lists, codes it
\* does not list, and no code at all.
AccessCodes ==
    {Undefined, "", "1", "2", "3", "read", "write", "readWrite", "4",
     "Read"}

\* Root elements: the hierarchical root, the flat root, and another tag.
DocumentRoots == {"archimate:model", "model", "other"}

AccessElement == Element("e1", "ApplicationComponent", "A", Undefined)

\* A Model with one Access relationship.
AccessModel ==
    [StandardLayout(AccessElement) EXCEPT
       !.relationships = << Relationship("r1", "Access", "e1", "e2") >>]

\* The written AccessModel with the access code of its relationship node
\* and its root element replaced.
HierarchicalDocument(code, root) ==
    LET written == writeModel(AccessModel)
        k == CHOOSE i \in 1..Len(written.folder) :
                written.folder[i].type = "relations"
    IN  [written EXCEPT !.root = root,
                        !.folder[k].element[1].accessType = code]

FlatDocument(m, root) == [writeExchangeFormat(m) EXCEPT !.root = root]

\* The Models whose flat documents are read.
FlatDocumentModels ==
    {m \in RoundTripModels :
        /\ Len(m.folders) = 2
        /\ \A e \in Range(getAllElements(m)) : e.name \in {"A", "B"}}

ReadDocuments ==
    {HierarchicalDocument(code, root) :
        code \in AccessCodes, root \in DocumentRoots}
    \cup {FlatDocument(m, root) :
            m \in FlatDocumentModels, root \in DocumentRoots}

\* The dialect of a document: only the hierarchical one has folder nodes.
IsHierarchical(document) == "folder" \in DOMAIN document

InitRead ==
    /\ doc \in ReadDocuments
    /\ parsed = NoModel
    /\ phase = "start"
    /\ lastOp = NoOp
    /\ orig = NoModel
    /\ model = NoModel
    /\ nops = 0
    /\ query = NoQuery
    /\ answer = NoAnswer

ReadComplete ==
    /\ phase = "start"
    /\ IsHierarchical(doc)
    /\ IF doc.root = "archimate:model"
       THEN /\ parsed' = parseModelComplete(doc)
            /\ lastOp' = [op |-> "parseModelComplete", error |-> Undefined]
            /\ phase' = "read"
       ELSE /\ parsed' = NoModel
            /\ lastOp' = [op |-> "parseModelComplete",
                          error |-> MissingRootError]
            /\ phase' = "failed"
    /\ UNCHANGED <<model, nops, query, answer, orig, doc>>

ReadBasic ==
    /\ phase = "start"
    /\ IsHierarchical(doc)
    /\ IF doc.root = "archimate:model"
       THEN /\ parsed' = parseModel(doc)
            /\ lastOp' = [op |-> "parseModel", error |-> Undefined]
            /\ phase' = "read"
       ELSE /\ parsed' = NoModel
            /\ lastOp' = [op |-> "parseModel", error |-> MissingRootError]
            /\ phase' = "failed"
    /\ UNCHANGED <<model, nops, query, answer, orig, doc>>

\* parseExchangeFormat has no failing path of its own; it throws only where
\* getFolderForType meets a kind getLayerForElementType does not know.
ReadFlat ==
    /\ phase = "start"
    /\ ~IsHierarchical(doc)
    /\ parsed' = parseExchangeFormat(doc)
    /\ lastOp' = [op |-> "parseExchangeFormat", error |-> Undefined]
    /\ phase' = "read"
    /\ UNCHANGED <<model, nops, query, answer, orig, doc>>

NextRead ==
    \/ ReadComplete
    \/ ReadBasic
    \/ ReadFlat

SpecRead == InitRead /\ [][NextRead]_vars

\* The relationship nodes of a list of folder nodes, at any depth.
RECURSIVE RelationshipNodes(_)
RelationshipNodes(xmlFolders) ==
    IF xmlFolders = <<>> THEN <<>>
    ELSE SelectSeq(Head(xmlFolders).element, IsRelationshipNode)
           \o RelationshipNodes(Head(xmlFolders).folder)
           \o RelationshipNodes(Tail(xmlFolders))

\* The decoding of an access code: the listed codes, ReadWrite otherwise.
DecodeAccess(code) ==
    CASE code \in {"1", "read"} -> "Read"
      [] code \in {"2", "write"} -> "Write"
      [] code \in {"3", "readWrite"} -> "ReadWrite"
      [] OTHER -> "ReadWrite"

\* C15: the hierarchical read of an Access relationship decodes its access
\* qualifier from the code: '1' or 'read' gives Read, '2' or 'write' Write,
\* '3' or 'readWrite' ReadWrite, any other or missing code the default
\* ReadWrite; so every Access relationship read from a document has a
\* qualifier in {Read, Write, ReadWrite}.
C15_AccessQualifierDecoded ==
    (phase = "read" /\ lastOp.op = "parseModelComplete") =>
        /\ Len(parsed.relationships) = Len(RelationshipNodes(doc.folder))
        /\ \A i \in 1..Len(parsed.relationships) :
              parsed.relationships[i].type = "Access" =>
                 /\ parsed.relationships[i].accessType =
                       DecodeAccess(RelationshipNodes(doc.folder)[i].accessType)
                 /\ parsed.relationships[i].accessType
                       \in {"Read", "Write", "ReadWrite"}

(***************************************************************************)
(* Claims on the hierarchical writer and its round trip, checked under     *)
(* SpecHier.                                                               *)
(***************************************************************************)
\* The nodes written as children of the top-level folders with a tag.
ChildrenUnderTag(document, tag) ==
    Flatten([i \in 1..Len(document.folder) |->
                IF document.folder[i].type = tag
                THEN document.folder[i].element ELSE <<>>])

\* C16: for every Model, whatever its folders (none tagged 'relations' or
\* 'diagrams', or several), the written document contains exactly one
\* encoded child per relationship of the Model under a folder tagged
\* 'relations' and exactly one per diagram under a folder tagged
\* 'diagrams'.
C16_SpecialFoldersSynthesized ==
    phase = "written" =>
        /\ ChildrenUnderTag(doc, "relations")
              = [i \in 1..Len(orig.relationships) |->
                    buildRelationship(orig.relationships[i])]
        /\ ChildrenUnderTag(doc, "diagrams")
              = [i \in 1..Len(orig.diagrams) |->
                    buildDiagram(orig.diagrams[i])]

\* The folders of a folder list in pre-order, each with its name, id, tag
\* and number of subfolders: the tree without the elements.
FolderTree(folders) ==
    [i \in 1..Len(PreOrder(folders)) |->
        [id |-> PreOrder(folders)[i].id,
         name |-> PreOrder(folders)[i].name,
         type |-> PreOrder(folders)[i].type,
         subfolders |-> Len(PreOrder(folders)[i].subfolders)]]

\* C17: the hierarchical write-then-read preserves the folder tree: every
\* folder of the Model, the folders tagged 'relations' and 'diagrams' and
\* every subfolder at any depth under any of them included, reappears with
\* the same name, id and tag and the same ordered sequence of subfolders.
C17_FolderTreeRoundTrip ==
    phase = "read" => FolderTree(parsed.folders) = FolderTree(orig.folders)

(***************************************************************************)
(* Claims on reading foreign documents, checked under SpecRead.            *)
(***************************************************************************)
\* C18: a codec read of a document that has no root model element fails
\* with an invalid-document error and returns no Model, neither a partial
\* nor a default one; this holds for parseModel, parseModelComplete and
\* parseExchangeFormat.
C18_MissingRootFails ==
    (phase # "start" /\ doc.root \notin {"model", "archimate:model"}) =>
        /\ phase = "failed"
        /\ lastOp.error # Undefined
        /\ parsed = NoModel

(***************************************************************************)
(* The tool dispatcher (index.ts): handleToolCall on currentModel.         *)
(* currentModel = null is NoModel.  A handler is an operator from          *)
(* currentModel and the call's arguments to the currentModel it leaves and *)
(* the text it answers; a handler that throws answers through the catch    *)
(* of the CallTool request handler, with what it had already changed.      *)
(***************************************************************************)
NoModelOpen == "Error: No model is currently open"

\* generateId: 32 random hexadecimal digits, taken as the n-th of a stream of
\* pairwise distinct strings.
generateId(n) == "id-" \o ToString(n)

\* getElementById: the first element with the id, <<>> for undefined.
getElementById(m, id) ==
    LET found == SelectSeq(getAllElements(m), LAMBDA e : e.id = id)
    IN  IF found = <<>> THEN <<>> ELSE <<found[1]>>

\* direction is left at its default 'both' by the dispatcher.
getRelationshipsForElement(m, elementId) ==
    SelectSeq(m.relationships,
              LAMBDA r : r.sourceId = elementId \/ r.targetId = elementId)

\* The enum of element_type in the inputSchema of each creation tool.
ToolElementTypes(tool) ==
    CASE tool = "archimate_create_motivation_element" ->
           Range(MotivationElementTypes)
      [] tool = "archimate_create_strategy_element" ->
           Range(StrategyElementTypes)
      [] tool = "archimate_create_business_element" ->
           Range(BusinessElementTypes)
      [] tool = "archimate_create_application_element" ->
           Range(ApplicationElementTypes)
      [] tool = "archimate_create_technology_element" ->
           Range(TechnologyElementTypes)
      [] tool = "archimate_create_implementation_element" ->
           Range(ImplementationElementTypes)
      [] tool = "archimate_create_composite_element" ->
           Range(CompositeElementTypes)

CreationTools ==
    {"archimate_create_motivation_element",
     "archimate_create_strategy_element",
     "archimate_create_business_element",
     "archimate_create_application_element",
     "archimate_create_technology_element",
     "archimate_create_implementation_element",
     "archimate_create_composite_element"}

Reply(m, text) == [model |-> m, text |-> text]

\* case 'archimate_create_model'
archimate_create_model(name, id) ==
    Reply(createEmptyModel(name, id), "Model created successfully")

\* The seven cases 'archimate_create_<layer>_element' share one body, which
\* does not look at the tool's name.  getLayerForElementType is called for
\* the answer, after addElementToModel.
archimate_create_element(m, tool, element_type, name, id) ==
    IF m = NoModel THEN Reply(m, NoModelOpen)
    ELSE LET element == Element(id, element_type, name, Undefined)
             added == addElementToModel(m, element)
         IN  IF getLayerForElementType(element.type) = LayerThrows
             THEN Reply(added, "Error: Unknown element type")
             ELSE Reply(added, "Element created successfully")

\* Faulty variant: the triple is not validated.
archimate_create_relationship_Unvalidated(m, source_id, target_id, relationship_type, id) ==
    IF m = NoModel THEN Reply(m, NoModelOpen)
    ELSE IF getElementById(m, source_id) = <<>>
    THEN Reply(m, "Error: Source element not found")
    ELSE IF getElementById(m, target_id) = <<>>
    THEN Reply(m, "Error: Target element not found")
    ELSE Reply(addRelationshipToModel(m,
                  Relationship(id, relationship_type, source_id, target_id)),
               "Relationship created successfully")

\* case 'archimate_create_relationship'
archimate_create_relationship(m, source_id, target_id, relationship_type, id) ==
    IF m = NoModel THEN Reply(m, NoModelOpen)
    ELSE LET sourceElement == getElementById(m, source_id)
             targetElement == getElementById(m, target_id)
         IN  IF sourceElement = <<>>
             THEN Reply(m, "Error: Source element not found")
             ELSE IF targetElement = <<>>
             THEN Reply(m, "Error: Target element not found")
             ELSE LET validation ==
                        validateRelationship(sourceElement[1].type,
                                             targetElement[1].type,
                                             relationship_type)
                  IN  IF validation.outcome = "throw"
                      THEN Reply(m, "Error: Unknown element type")
                      ELSE IF validation.outcome # "valid"
                      THEN Reply(m, validation.error)
                      ELSE Reply(addRelationshipToModel(m,
                                    Relationship(id, relationship_type,
                                                 source_id, target_id)),
                                 "Relationship created successfully")

\* case 'archimate_update_element': args.name is copied when truthy,
\* args.documentation when not undefined.
archimate_update_element(m, element_id, name, documentation) ==
    IF m = NoModel THEN Reply(m, NoModelOpen)
    ELSE LET updates ==
               [name |-> IF name # Undefined /\ name # "" THEN name
                         ELSE Undefined,
                documentation |-> documentation,
                properties |-> [set |-> FALSE, value |-> <<>>]]
         IN  Reply(updateElementInModel(m, element_id, updates),
                   "Element updated successfully")

\* case 'archimate_delete_element'
archimate_delete_element(m, element_id) ==
    IF m = NoModel THEN Reply(m, NoModelOpen)
    ELSE IF getElementById(m, element_id) = <<>>
    THEN Reply(m, "Error: Element not found")
    ELSE Reply(removeElementFromModel(m, element_id),
               "Element deleted successfully")

\* case 'archimate_delete_relationship'
archimate_delete_relationship(m, relationship_id) ==
    IF m = NoModel THEN Reply(m, NoModelOpen)
    ELSE IF ~ \E i \in 1..Len(m.relationships) :
                 m.relationships[i].id = relationship_id
    THEN Reply(m, "Error: Relationship not found")
    ELSE Reply(removeRelationshipFromModel(m, relationship_id),
               "Relationship deleted successfully")

(***************************************************************************)
(* SpecDispatch: the dispatcher starts with no model open and answers any  *)
(* sequence of at most MaxCalls tool calls.  The n-th call draws the n-th  *)
(* id of generateId when it needs one.  model is currentModel, orig the    *)
(* currentModel before the last call, doc the file create_model wrote.     *)
(***************************************************************************)
MaxCalls == 5

\* The element_type arguments: a kind of the Business layer that is an
\* active structure, one that is a behaviour, and a string outside the
\* element-kind enumeration.  Every creation tool is called with each.
DispatchElementTypes == {"BusinessActor", "BusinessProcess", UnknownElementType}

\* A relationship kind valid between some of the element kinds only, and a
\* string outside the relationship-kind enumeration.
DispatchRelationshipTypes == {"Assignment", UnknownRelationshipType}

\* The ids a caller can name: every id generated so far and one never
\* generated.
KnownIds == {generateId(n) : n \in 0..nops}

Dispatch(tool, args, reply) ==
    /\ nops < MaxCalls
    /\ model' = reply.model
    /\ orig' = model
    /\ lastOp' = [op |-> tool, args |-> args, text |-> reply.text]
    /\ nops' = nops + 1
    /\ UNCHANGED <<query, answer, parsed, phase>>

InitDispatch ==
    /\ model = NoModel
    /\ orig = NoModel
    /\ lastOp = NoOp
    /\ nops = 0
    /\ phase = "serving"
    /\ doc = NoDoc
    /\ query = NoQuery
    /\ answer = NoAnswer
    /\ parsed = NoModel

CallCreateModel ==
    LET reply == archimate_create_model("New", generateId(nops + 1))
    IN  /\ Dispatch("archimate_create_model", [name |-> "New"], reply)
        /\ doc' = writeModel(reply.model)

CallCreateElement ==
    \E tool \in CreationTools, element_type \in DispatchElementTypes :
       /\ Dispatch(tool, [element_type |-> element_type, name |-> "A"],
                   archimate_create_element(model, tool, element_type, "A",
                                            generateId(nops + 1)))
       /\ UNCHANGED doc

CallCreateRelationship ==
    \E source_id \in KnownIds, target_id \in KnownIds,
       relationship_type \in DispatchRelationshipTypes :
       /\ Dispatch("archimate_create_relationship",
                   [source_id |-> source_id, target_id |-> target_id,
                    relationship_type |-> relationship_type],
                   archimate_create_relationship(model, source_id, target_id,
                                                 relationship_type,
                                                 generateId(nops + 1)))
       /\ UNCHANGED doc

CallUpdateElement ==
    \E element_id \in KnownIds, name \in {Undefined, "", "B"} :
       /\ Dispatch("archimate_update_element",
                   [element_id |-> element_id, name |-> name],
                   archimate_update_element(model, element_id, name,
                                            Undefined))
       /\ UNCHANGED doc

CallDeleteElement ==
    \E element_id \in KnownIds :
       /\ Dispatch("archimate_delete_element", [element_id |-> element_id],
                   archimate_delete_element(model, element_id))
       /\ UNCHANGED doc

CallDeleteRelationship ==
    \E relationship_id \in KnownIds :
       /\ Dispatch("archimate_delete_relationship",
                   [relationship_id |-> relationship_id],
                   archimate_delete_relationship(model, relationship_id))
       /\ UNCHANGED doc

NextDispatch ==
    \/ CallCreateModel
    \/ CallCreateElement
    \/ CallCreateRelationship
    \/ CallUpdateElement
    \/ CallDeleteElement
    \/ CallDeleteRelationship

SpecDispatch == InitDispatch /\ [][NextDispatch]_vars

(***************************************************************************)
(* Claims on the dispatcher, checked under SpecDispatch.                   *)
(***************************************************************************)
\* The relationships of a model whose endpoints are both elements of the
\* model and whose triple isValidRelationship accepts.
RelationshipIsValid(m, r) ==
    LET s == getElementById(m, r.sourceId)
        t == getElementById(m, r.targetId)
    IN  /\ s # <<>>
        /\ t # <<>>
        /\ ~ isValidRelationshipThrows(s[1].type, t[1].type)
        /\ isValidRelationship(s[1].type, t[1].type, r.type)

\* C19: from archimate_create_model on, after any sequence of creation,
\* update and deletion calls, every relationship of the current model has a
\* source and a target that are elements of the model and a triple that
\* isValidRelationship accepts; a create_relationship call with an invalid
\* triple or a missing endpoint adds nothing.
C19_DispatcherValidity ==
    model # NoModel =>
        /\ \A i \in 1..Len(model.relationships) :
              RelationshipIsValid(model, model.relationships[i])
        /\ (/\ lastOp.op = "archimate_create_relationship"
            /\ orig # NoModel
            /\ ~ RelationshipIsValid(orig,
                    Relationship("new", lastOp.args.relationship_type,
                                 lastOp.args.source_id,
                                 lastOp.args.target_id)))
              => model = orig

\* A relationship was created between two elements of the model, and the
\* deletion of one of them took the relationship with it.
C19_Witness ==
    /\ model # NoModel
    /\ lastOp.op = "archimate_delete_element"
    /\ Len(getRelationshipsForElement(orig, lastOp.args.element_id)) = 1
    /\ model.relationships = <<>>
    /\ Len(getAllElements(model)) = 1

\* C20: a creation tool called with an element_type that is not in the
\* tool's enum, a kind of another layer or a string outside the enumeration,
\* adds no element to the current model.
C20_CreationToolOwnLayerOnly ==
    (/\ lastOp.op \in CreationTools
     /\ orig # NoModel
     /\ lastOp.args.element_type \notin ToolElementTypes(lastOp.op))
       => getAllElements(model) = getAllElements(orig)

(***************************************************************************)
(* The audit logger (audit/logger.ts).  An AuditLogger is [logPath,        *)
(* enabled, fd]; fd is NullFd or the path the descriptor was opened on.    *)
(* The file system is a function from paths to [exists, lines].  A method  *)
(* is an operator from the logger and the files to the logger and files it *)
(* leaves.                                                                 *)
(***************************************************************************)
NullFd == "<null>"

LogPaths == {"p1", "p2"}

NoFile == [exists |-> FALSE, lines |-> <<>>]

LoggerState(logger, files) == [logger |-> logger, files |-> files]

\* constructor: enabled unless ARCHIMATE_AUDIT_LOG is 'disabled'.
AuditLogger(logPath, envDisabled) ==
    [logPath |-> logPath, enabled |-> ~envDisabled, fd |-> NullFd]

\* ensureFileDescriptor: openSync(logPath, 'a') creates the file.
ensureFileDescriptor(logger, files) ==
    IF logger.fd = NullFd
    THEN LoggerState([logger EXCEPT !.fd = logger.logPath],
                     [files EXCEPT ![logger.logPath].exists = TRUE])
    ELSE LoggerState(logger, files)

\* AuditLogger.close
close(logger) == [logger EXCEPT !.fd = NullFd]

\* Faulty variant: the descriptor of the old file stays open.
setLogPath_KeepsDescriptor(logger, newPath) ==
    [logger EXCEPT !.logPath = newPath]

\* AuditLogger.setLogPath
setLogPath(logger, newPath) ==
    [close(logger) EXCEPT !.logPath = newPath]

\* AuditLogger.setEnabled
setEnabled(logger, enabled) == [logger EXCEPT !.enabled = enabled]

\* AuditLogger.log: the line written is the entry with the timestamp put in
\* front; writeSync appends to the file the descriptor was opened on.
log(logger, files, entry, now) ==
    IF ~logger.enabled THEN LoggerState(logger, files)
    ELSE LET fullEntry == [timestamp |-> now, event |-> entry]
             opened == ensureFileDescriptor(logger, files)
         IN  LoggerState(opened.logger,
                [opened.files EXCEPT
                   ![opened.logger.fd].lines = Append(@, fullEntry)])

\* AuditLogger.getEntries: the last `limit` entries of the current file when
\* limit is positive and smaller than their number, else all of them.
getEntries(logger, files, limit) ==
    LET entries == files[logger.logPath].lines
    IN  IF ~files[logger.logPath].exists THEN <<>>
        ELSE IF limit > 0 /\ Len(entries) > limit
        THEN SubSeq(entries, Len(entries) - limit + 1, Len(entries))
        ELSE entries

(***************************************************************************)
(* SpecLog: one AuditLogger under any sequence of at most MaxLogCalls      *)
(* calls.  model is the logger, doc the files, nops the clock; orig holds  *)
(* the history: per path, the file as it was at construction followed by   *)
(* the entries passed to log while the logger was enabled and the path was *)
(* the current log path.                                                   *)
(***************************************************************************)
MaxLogCalls == 4

LogEvents == {"create", "delete"}

\* A log file left by an earlier run.
OldFile == [exists |-> TRUE, lines |-> <<[timestamp |-> 0, event |-> "old"]>>]

InitLog ==
    /\ \E envDisabled \in BOOLEAN : model = AuditLogger("p1", envDisabled)
    /\ \E f \in {NoFile, OldFile} : doc = [p \in LogPaths |-> IF p = "p1" THEN f ELSE NoFile]
    /\ orig = doc
    /\ lastOp = NoOp
    /\ nops = 0
    /\ phase = "logging"
    /\ answer = NoAnswer
    /\ query = NoQuery
    /\ parsed = NoModel

LogCall ==
    /\ nops < MaxLogCalls
    /\ \E entry \in LogEvents :
          LET after == log(model, doc, entry, nops + 1)
          IN  /\ model' = after.logger
              /\ doc' = after.files
              /\ orig' = IF model.enabled
                         THEN [orig EXCEPT
                                 ![model.logPath].exists = TRUE,
                                 ![model.logPath].lines =
                                    Append(@, [timestamp |-> nops + 1,
                                               event |-> entry])]
                         ELSE orig
              /\ lastOp' = [op |-> "log", entry |-> entry,
                            enabled |-> model.enabled]
    /\ nops' = nops + 1
    /\ UNCHANGED <<query, answer, parsed, phase>>

SetEnabledCall ==
    /\ nops < MaxLogCalls
    /\ \E enabled \in BOOLEAN :
          /\ model' = setEnabled(model, enabled)
          /\ lastOp' = [op |-> "setEnabled", enabled |-> enabled]
    /\ nops' = nops + 1
    /\ UNCHANGED <<query, answer, orig, doc, parsed, phase>>

SetLogPathCall ==
    /\ nops < MaxLogCalls
    /\ \E newPath \in LogPaths :
          /\ model' = setLogPath(model, newPath)
          /\ lastOp' = [op |-> "setLogPath", newPath |-> newPath,
                        oldPath |-> model.logPath]
    /\ nops' = nops + 1
    /\ UNCHANGED <<query, answer, orig, doc, parsed, phase>>

CloseCall ==
    /\ nops < MaxLogCalls
    /\ model' = close(model)
    /\ lastOp' = [op |-> "close"]
    /\ nops' = nops + 1
    /\ UNCHANGED <<query, answer, orig, doc, parsed, phase>>

GetEntriesCall ==
    /\ nops < MaxLogCalls
    /\ \E limit \in {0, 1} :
          /\ model' = close(model)
          /\ answer' = [NoAnswer EXCEPT
                          !.op = "getEntries",
                          !.suggestions = getEntries(model, doc, limit)]
          /\ lastOp' = [op |-> "getEntries", limit |-> limit]
    /\ nops' = nops + 1
    /\ UNCHANGED <<query, orig, doc, parsed, phase>>

NextLog ==
    \/ LogCall
    \/ SetEnabledCall
    \/ SetLogPathCall
    \/ CloseCall
    \/ GetEntriesCall

SpecLog == InitLog /\ [][NextLog]_vars

(***************************************************************************)
(* Claims on the audit logger, checked under SpecLog.                      *)
(***************************************************************************)
\* C21: after any sequence of log, setEnabled, setLogPath, close and
\* getEntries calls on one AuditLogger, each log file holds exactly the
\* entries passed to log while the logger was enabled and that file's path
\* was the current log path, in call order; an entry logged while disabled
\* is written nowhere and creates no file, and after setLogPath no later
\* entry reaches the old file while its earlier entries stay.
C21_AuditLogHistory ==
    phase = "logging" =>
        /\ doc = orig
        /\ (lastOp.op = "log" /\ ~lastOp.enabled) =>
              \A p \in LogPaths : doc[p].exists => orig[p].exists

\* C21 witness: an entry was logged to the first file, the path was changed
\* and a later entry went to the second file only.
C21_Witness ==
    /\ phase = "logging"
    /\ lastOp.op = "log"
    /\ model.logPath = "p2"
    /\ Len(doc["p2"].lines) = 1
    /\ Len(doc["p1"].lines) >= 1
    /\ doc["p1"].lines[Len(doc["p1"].lines)].timestamp > 0
    /\ doc["p1"].lines[Len(doc["p1"].lines)].timestamp
          < doc["p2"].lines[1].timestamp

C23_NoEnumeratedKindByDefault ==
    (/\ phase = "answered" /\ answer.op = "classify"
     /\ Includes(AllElementTypes, query.src))
       => query.src \in ListedKinds

\* C28: isValidRelationship returns a value without raising also when the
\* source or the target kind is outside the element-kind enumeration: true
\* for Association, false for a relationship kind outside the eleven.
C28_IsValidTotalOverUnknownKinds ==
    (/\ phase = "answered" /\ answer.op \in {"isValid", "validate"}
     /\ \/ ~Includes(AllElementTypes, query.src)
        \/ ~Includes(AllElementTypes, query.tgt))
       => /\ answer.outcome # "throw"
          /\ (answer.op = "isValid" /\ query.rel = "Association")
                => answer.outcome = "true"
          /\ (answer.op = "isValid"
                /\ ~Includes(RelationshipTypes, query.rel))
                => answer.outcome = "false"

(***************************************************************************)
(* Further claims on the removals, checked under Spec.                     *)
(***************************************************************************)
\* C24: removeElement removes only diagram objects that reference the
\* removed element: every diagram object, top-level or nested, whose
\* elementId differs from the removed id is still in its diagram afterwards,
\* with the same bounds and the same outgoing connections.
C24_RemoveElementKeepsOtherObjects ==
    lastOp.op = "removeElement" =>
        \A i \in 1..Len(lastOp.before.diagrams) :
           \A o \in Range(AllObjects(lastOp.before.diagrams[i].objects)) :
              o.elementId # lastOp.id =>
                 \E k \in Range(AllObjects(model.diagrams[i].objects)) :
                    /\ k.id = o.id
                    /\ k.elementId = o.elementId
                    /\ k.bounds = o.bounds
                    /\ k.sourceConnections = o.sourceConnections

(***************************************************************************)
(* The view handlers of the dispatcher.  The handlers leave the optional   *)
(* sourceConnections and targetConnectionIds of a new diagram object       *)
(* undefined and create them on first use; undefined is the empty list     *)
(* here, which no handler tells apart.                                     *)
(***************************************************************************)
\* case 'archimate_create_view'
archimate_create_view(m, name, viewpoint, id) ==
    IF m = NoModel THEN Reply(m, NoModelOpen)
    ELSE Reply(addDiagramToModel(m,
                  [Diagram(id, name, <<>>) EXCEPT !.viewpoint = viewpoint]),
               "View created successfully")

\* case 'archimate_add_to_view', called without x, y, width and height.
archimate_add_to_view(m, view_id, element_id, id) ==
    IF m = NoModel THEN Reply(m, NoModelOpen)
    ELSE LET d == FindIndex(m.diagrams, view_id)
         IN  IF d = 0 THEN Reply(m, "Error: View not found")
             ELSE IF getElementById(m, element_id) = <<>>
             THEN Reply(m, "Error: Element not found")
             ELSE LET existingCount == Len(m.diagrams[d].objects)
                      defaultX == (existingCount % 5) * 150 + 50
                      defaultY == (existingCount \div 5) * 100 + 50
                      diagObj == DiagramObject(id, element_id,
                                    Bounds(defaultX, defaultY, 120, 55),
                                    <<>>, <<>>)
                  IN  Reply([m EXCEPT !.diagrams[d].objects =
                                        Append(@, diagObj)],
                            "Element added to view")

\* case 'archimate_add_connection_to_view'
archimate_add_connection_to_view(m, view_id, relationship_id, source_diagram_object_id, target_diagram_object_id, id) ==
    IF m = NoModel THEN Reply(m, NoModelOpen)
    ELSE LET d == FindIndex(m.diagrams, view_id)
         IN  IF d = 0 THEN Reply(m, "Error: View not found")
             ELSE IF FindIndex(m.relationships, relationship_id) = 0
             THEN Reply(m, "Error: Relationship not found")
             ELSE LET s == FindIndex(m.diagrams[d].objects,
                                     source_diagram_object_id)
                      t == FindIndex(m.diagrams[d].objects,
                                     target_diagram_object_id)
                      connection ==
                         DiagramConnection(id, source_diagram_object_id,
                                           target_diagram_object_id,
                                           relationship_id, <<>>)
                  IN  IF s = 0
                      THEN Reply(m, "Error: Source diagram object not found")
                      ELSE IF t = 0
                      THEN Reply(m, "Error: Target diagram object not found")
                      ELSE LET withSource ==
                                 [m EXCEPT
                                    !.diagrams[d].objects[s].sourceConnections
                                       = Append(@, connection)]
                           IN  Reply([withSource EXCEPT
                                        !.diagrams[d].objects[t]
                                           .targetConnectionIds
                                             = Append(@, id)],
                                     "Connection added to view")

\* A file that does not exist or cannot be read or written.
NoFileContent == NoDoc

\* case 'archimate_create_model' with its path: currentModel and
\* currentModelPath are assigned before writeModel is awaited, so a failing
\* write leaves both changed.  A dispatcher state is [model, path, files].
archimate_create_model_at(files, name, path, id, writeFails) ==
    LET created == createEmptyModel(name, id)
    IN  IF writeFails
        THEN [model |-> created, path |-> path, files |-> files,
              text |-> "Error: write failed"]
        ELSE [model |-> created, path |-> path,
              files |-> [files EXCEPT ![path] = writeModel(created)],
              text |-> "Model created successfully"]

\* case 'archimate_open_model': parseModelComplete throws before the
\* assignment when the file cannot be read or has no root; the layer
\* count after the assignment throws for an element of unknown kind.
archimate_open_model(m, currentModelPath, files, path) ==
    IF files[path] = NoFileContent \/ files[path].root # "archimate:model"
    THEN [model |-> m, path |-> currentModelPath, files |-> files,
          text |-> "Error: cannot read model"]
    ELSE LET opened == parseModelComplete(files[path])
         IN  [model |-> opened, path |-> path, files |-> files,
              text |-> IF \E e \in Range(getAllElements(opened)) :
                             getLayerForElementType(e.type) = LayerThrows
                       THEN "Error: Unknown element type"
                       ELSE "Model opened"]

\* case 'archimate_save_model', called without a path.
archimate_save_model(m, currentModelPath, files, writeFails) ==
    IF m = NoModel
    THEN [model |-> m, path |-> currentModelPath, files |-> files,
          text |-> NoModelOpen]
    ELSE IF currentModelPath = Undefined
    THEN [model |-> m, path |-> currentModelPath, files |-> files,
          text |-> "Error: No save path specified"]
    ELSE IF writeFails
    THEN [model |-> m, path |-> currentModelPath, files |-> files,
          text |-> "Error: write failed"]
    ELSE [model |-> m, path |-> currentModelPath,
          files |-> [files EXCEPT ![currentModelPath] = writeModel(m)],
          text |-> "Model saved"]

(***************************************************************************)
(* SpecView: the dispatcher after archimate_create_model, two element      *)
(* creations and one archimate_create_relationship call (the calls that    *)
(* drew the ids 1 to 4), under any sequence of at most MaxViewCalls view,  *)
(* deletion, save and open calls.                                          *)
(***************************************************************************)
MaxViewCalls == 4

PreparedModel ==
    LET created == archimate_create_model("New", generateId(1)).model
        one == archimate_create_element(created,
                  "archimate_create_business_element", "BusinessActor", "A",
                  generateId(2)).model
        two == archimate_create_element(one,
                  "archimate_create_business_element", "BusinessProcess",
                  "B", generateId(3)).model
    IN  archimate_create_relationship(two, generateId(2), generateId(3),
                                      "Assignment", generateId(4)).model

\* The ids a caller can name for an argument: the ids of the things of the
\* right sort that are in the model, and one id that is in no model.
ArgumentIds(items) == {items[i].id : i \in 1..Len(items)} \cup {generateId(0)}

\* query is the dispatcher's currentModelPath, doc the files by path.
ModelPaths == {"a.archimate", "b.archimate"}

ViewDispatch(tool, args, reply) ==
    /\ nops < 4 + MaxViewCalls
    /\ model' = reply.model
    /\ orig' = model
    /\ lastOp' = [op |-> tool, args |-> args, text |-> reply.text,
                  path |-> query]
    /\ nops' = nops + 1
    /\ UNCHANGED <<answer, parsed, phase>>

InitView ==
    /\ model = PreparedModel
    /\ orig = NoModel
    /\ lastOp = NoOp
    /\ nops = 4
    /\ phase = "serving"
    /\ query = "a.archimate"
    /\ doc = [p \in ModelPaths |->
                IF p = "a.archimate"
                THEN writeModel(archimate_create_model("New",
                                                       generateId(1)).model)
                ELSE NoFileContent]
    /\ answer = NoAnswer
    /\ parsed = NoModel

ViewCreateModel ==
    \E writeFails \in BOOLEAN :
       LET reply == archimate_create_model_at(doc, "Next", "b.archimate",
                                              generateId(nops + 1),
                                              writeFails)
       IN  /\ ViewDispatch("archimate_create_model",
                           [path |-> "b.archimate"], reply)
           /\ query' = reply.path
           /\ doc' = reply.files

ViewOpenModel ==
    \E path \in ModelPaths :
       LET reply == archimate_open_model(model, query, doc, path)
       IN  /\ ViewDispatch("archimate_open_model", [path |-> path], reply)
           /\ query' = reply.path
           /\ doc' = reply.files

ViewSaveModel ==
    \E writeFails \in BOOLEAN :
       LET reply == archimate_save_model(model, query, doc, writeFails)
       IN  /\ ViewDispatch("archimate_save_model", [path |-> Undefined],
                           reply)
           /\ query' = reply.path
           /\ doc' = reply.files

ViewCreateView ==
    \E viewpoint \in {Undefined, "layered"} :
       /\ ViewDispatch("archimate_create_view",
                       [name |-> "View", viewpoint |-> viewpoint],
                       archimate_create_view(model, "View", viewpoint,
                                             generateId(nops + 1)))
       /\ UNCHANGED <<query, doc>>

ViewAddToView ==
    \E view_id \in ArgumentIds(model.diagrams),
       element_id \in ArgumentIds(getAllElements(model)) :
       /\ ViewDispatch("archimate_add_to_view",
                       [view_id |-> view_id, element_id |-> element_id],
                       archimate_add_to_view(model, view_id, element_id,
                                             generateId(nops + 1)))
       /\ UNCHANGED <<query, doc>>

ViewAddConnection ==
    \E view_id \in ArgumentIds(model.diagrams),
       relationship_id \in ArgumentIds(model.relationships),
       source_id \in ArgumentIds(AllModelObjects(model)),
       target_id \in ArgumentIds(AllModelObjects(model)) :
       /\ ViewDispatch("archimate_add_connection_to_view",
                       [view_id |-> view_id,
                        relationship_id |-> relationship_id,
                        source_diagram_object_id |-> source_id,
                        target_diagram_object_id |-> target_id],
                       archimate_add_connection_to_view(model, view_id,
                          relationship_id, source_id, target_id,
                          generateId(nops + 1)))
       /\ UNCHANGED <<query, doc>>

ViewDeleteElement ==
    \E element_id \in ArgumentIds(getAllElements(model)) :
       /\ ViewDispatch("archimate_delete_element",
                       [element_id |-> element_id],
                       archimate_delete_element(model, element_id))
       /\ UNCHANGED <<query, doc>>

ViewDeleteRelationship ==
    \E relationship_id \in ArgumentIds(model.relationships) :
       /\ ViewDispatch("archimate_delete_relationship",
                       [relationship_id |-> relationship_id],
                       archimate_delete_relationship(model, relationship_id))
       /\ UNCHANGED <<query, doc>>

NextView ==
    \/ ViewCreateModel
    \/ ViewOpenModel
    \/ ViewSaveModel
    \/ ViewCreateView
    \/ ViewAddToView
    \/ ViewAddConnection
    \/ ViewDeleteElement
    \/ ViewDeleteRelationship

SpecView == InitView /\ [][NextView]_vars

(***************************************************************************)
(* Claims on the views and on the dispatcher's state, checked under        *)
(* SpecView.                                                               *)
(***************************************************************************)
\* C25: after any sequence of create_view, add_to_view,
\* add_connection_to_view, delete_element and delete_relationship calls on
\* a created model, every connection of a view has a source and a target
\* that are objects of the same view and a relationshipId that is the id of
\* a relationship of the model, and every id in an object's
\* targetConnectionIds is the id of a connection of that view.
C25_DiagramIntegrity ==
    \A i \in 1..Len(model.diagrams) :
       LET objects == AllObjects(model.diagrams[i].objects)
           connections == Flatten([j \in 1..Len(objects) |->
                                     objects[j].sourceConnections])
       IN  /\ \A c \in Range(connections) :
                 /\ \E o \in Range(objects) : o.id = c.sourceId
                 /\ \E o \in Range(objects) : o.id = c.targetId
                 /\ \E r \in Range(model.relationships) :
                       r.id = c.relationshipId
           /\ \A o \in Range(objects) :
                 \A t \in Range(o.targetConnectionIds) :
                    \E c \in Range(connections) : c.id = t

\* The answers that are error responses: an 'Error: ...' text returned by
\* the handler or made by the catch of the CallTool request handler.
ErrorTexts ==
    {NoModelOpen, "Error: write failed", "Error: cannot read model",
     "Error: Unknown element type", "Error: No save path specified",
     "Error: View not found", "Error: Element not found",
     "Error: Relationship not found",
     "Error: Source diagram object not found",
     "Error: Target diagram object not found",
     "Error: Source element not found", "Error: Target element not found"}

\* C29: whenever a tool call ends in an error response, currentModel,
\* currentModelPath and the contents of the current model are the same as
\* before the call.
C29_ErrorLeavesStateUnchanged ==
    (lastOp.op # "none" /\ lastOp.text \in ErrorTexts) =>
        /\ model = orig
        /\ query = lastOp.path

\* C30: a diagram's viewpoint survives the hierarchical write-then-read:
\* after save_model then open_model the diagram with the same id has the
\* viewpoint it had.
C30_ViewpointSurvives ==
    (/\ lastOp.op = "archimate_open_model"
     /\ lastOp.text = "Model opened"
     /\ doc[query] = writeModel(orig))
       => \A i \in 1..Len(orig.diagrams) :
             \E d \in Range(model.diagrams) :
                /\ d.id = orig.diagrams[i].id
                /\ d.viewpoint = orig.diagrams[i].viewpoint

(***************************************************************************)
(* The impact analysis of the dispatcher: a depth-first walk that threads  *)
(* the visited set and the impact list through its calls.                  *)
(***************************************************************************)
\* getRelationshipsForElement with its direction argument.
getRelationshipsInDirection(m, elementId, direction) ==
    SelectSeq(m.relationships,
       LAMBDA r : IF direction = "outgoing" THEN r.sourceId = elementId
                  ELSE IF direction = "incoming" THEN r.targetId = elementId
                  ELSE r.sourceId = elementId \/ r.targetId = elementId)

RECURSIVE analyze(_, _, _, _, _, _)
RECURSIVE analyzeRelationships(_, _, _, _, _, _, _)
\* The loop `for (const rel of rels)` of analyze, from rels onwards.
analyzeRelationships(m, direction, maxDepth, id, depth, rels, walk) ==
    IF rels = <<>> THEN walk
    ELSE LET rel == Head(rels)
             isSource == rel.sourceId = id
             otherId == IF isSource THEN rel.targetId ELSE rel.sourceId
             pushed == [walk EXCEPT
                          !.impact = Append(@,
                             [depth |-> depth,
                              direction |-> IF isSource THEN "outgoing"
                                            ELSE "incoming",
                              relationship |-> rel.type,
                              elementId |-> otherId])]
         IN  analyzeRelationships(m, direction, maxDepth, id, depth,
                Tail(rels),
                IF otherId \notin walk.visited
                THEN analyze(m, direction, maxDepth, otherId, depth + 1,
                             pushed)
                ELSE walk)

\* function analyze(id, depth) of case 'archimate_impact_analysis'
analyze(m, direction, maxDepth, id, depth, walk) ==
    IF depth > maxDepth \/ id \in walk.visited THEN walk
    ELSE analyzeRelationships(m, direction, maxDepth, id, depth,
            getRelationshipsInDirection(m, id, direction),
            [walk EXCEPT !.visited = @ \cup {id}])

\* case 'archimate_impact_analysis': direction defaults to 'both' and a
\* depth of 0 or none to 2.  The answer is impactedElements, <<>> for an
\* error text.
archimate_impact_analysis(m, element_id, direction, depth) ==
    IF m = NoModel \/ getElementById(m, element_id) = <<>> THEN <<>>
    ELSE analyze(m,
                 IF direction = Undefined THEN "both" ELSE direction,
                 IF depth = 0 THEN 2 ELSE depth,
                 element_id, 1,
                 [visited |-> {}, impact |-> <<>>]).impact

(***************************************************************************)
(* SpecImpact: one archimate_impact_analysis call on a model of three      *)
(* elements and at most MaxRelationships Association relationships between *)
(* any of them, loops and parallel relationships included.                 *)
(***************************************************************************)
MaxRelationships == 3

ImpactElementIds == <<"a", "b", "c">>

ImpactElementsModel ==
    addElementToModel(
       addElementToModel(
          addElementToModel(createEmptyModel("New", "m1"),
             Element("a", "BusinessActor", "A", Undefined)),
          Element("b", "BusinessActor", "B", Undefined)),
       Element("c", "BusinessActor", "C", Undefined))

RECURSIVE ImpactModelsOf(_)
\* The models with exactly n relationships.
ImpactModelsOf(n) ==
    IF n = 0 THEN {ImpactElementsModel}
    ELSE {addRelationshipToModel(m,
             Relationship(generateId(n), "Association", s, t)) :
            m \in ImpactModelsOf(n - 1),
            s \in Range(ImpactElementIds), t \in Range(ImpactElementIds)}

ImpactModels == UNION {ImpactModelsOf(n) : n \in 0..MaxRelationships}

InitImpact ==
    /\ model \in ImpactModels
    /\ phase = "asked"
    /\ query = NoQuery
    /\ answer = NoAnswer
    /\ lastOp = NoOp
    /\ nops = 0
    /\ orig = NoModel
    /\ doc = NoDoc
    /\ parsed = NoModel

CallImpactAnalysis ==
    /\ phase = "asked"
    /\ \E element_id \in Range(ImpactElementIds) \cup {"absent"},
          direction \in {Undefined, "incoming", "outgoing"},
          depth \in {0, 1, 3} :
          /\ query' = [element_id |-> element_id,
                       direction |-> IF direction = Undefined THEN "both"
                                     ELSE direction,
                       maxDepth |-> IF depth = 0 THEN 2 ELSE depth]
          /\ answer' = [NoAnswer EXCEPT
                          !.op = "impact",
                          !.outcome =
                             IF getElementById(model, element_id) = <<>>
                             THEN "error" ELSE "analysed",
                          !.suggestions =
                             archimate_impact_analysis(model, element_id,
                                                       direction, depth)]
    /\ phase' = "answered"
    /\ UNCHANGED <<model, lastOp, nops, orig, doc, parsed>>

NextImpact == CallImpactAnalysis

SpecImpact == InitImpact /\ [][NextImpact]_vars

\* The ids one step from id in the direction.
Neighbours(m, id, direction) ==
    {IF r.sourceId = id THEN r.targetId ELSE r.sourceId :
        r \in Range(getRelationshipsInDirection(m, id, direction))}

RECURSIVE ReachableWithin(_, _, _, _)
\* The ids reachable from the ids of `from` in at most k steps.
ReachableWithin(m, from, direction, k) ==
    IF k = 0 THEN from
    ELSE ReachableWithin(m,
            from \cup UNION {Neighbours(m, id, direction) : id \in from},
            direction, k - 1)

\* C26: archimate_impact_analysis reports each impacted element at most
\* once: impactedElements holds no element id twice and never the root
\* element, and totalImpacted is the number of distinct elements reachable
\* from the root within maxDepth steps in the chosen direction.
C26_ImpactedOnce ==
    (phase = "answered" /\ answer.outcome = "analysed") =>
        LET impact == answer.suggestions
        IN  /\ \A i \in 1..Len(impact) : \A j \in 1..Len(impact) :
                  impact[i].elementId = impact[j].elementId => i = j
            /\ \A i \in 1..Len(impact) :
                  impact[i].elementId # query.element_id
            /\ Len(impact) =
                  Cardinality(ReachableWithin(model, {query.element_id},
                                 query.direction, query.maxDepth)
                                \ {query.element_id})

(***************************************************************************)
(* Further claims on the readers, checked under SpecRead.                  *)
(***************************************************************************)
\* C27: the two hierarchical readers agree: for every document parseModel
\* and parseModelComplete return Models with the same relationships, the
\* same diagrams and the same tree of folders and elements.
C27_ReadersAgree ==
    (phase = "read" /\ lastOp.op = "parseModel") =>
        /\ parsed.relationships = parseModelComplete(doc).relationships
        /\ parsed.diagrams = parseModelComplete(doc).diagrams
        /\ parsed.folders = parseModelComplete(doc).folders
====
